---- MODULE Spec2Model ----
(***************************************************************************)
(* FinanceBook: the category taxonomy and payment-tagging engine of        *)
(* app/main.py over the tables of app/models.py.                           *)
(*                                                                         *)
(* The persistent store is the tuple of tables (users, types, cats,        *)
(* recipients, items, links).  Every request handler is an operator that   *)
(* maps the store and a request to a status and the store it leaves        *)
(* committed; the actions apply the handlers to requests drawn from small  *)
(* sets.  Names are sequences of one-character strings so that             *)
(* _normalize_name is computed, not assumed.                               *)
(***************************************************************************)
EXTENDS Integers, Sequences, FiniteSets, TLC

VARIABLES users, types, cats, recipients, items, links, last, inflight, calls

vars == <<users, types, cats, recipients, items, links, last, inflight, calls>>

(***************************************************************************)
(* Bounds of the model.                                                    *)
(***************************************************************************)
MaxUsers == 2
MaxTypes == 2
MaxCats == 2
MaxRecipients == 1
MaxItems == 1
MaxTagList == 2
MaxRows == 1
\* The payment items of the tag assignment specification.
MaxAssignItems == 2
\* The categories, recipients and payment items of the naming specification.
MaxNameCats == 3
MaxNameRecipients == 2
MaxNameItems == 1
\* The rows of a file and the payment items of the import specification.
MaxImportRows == 2
MaxImportItems == 2
\* the queries
MaxListTags == 1
MaxListItems == 2
MaxFilter == 2
MaxExpandFilter == 2
MaxCalls == 2
MaxRaceItems == 1

(***************************************************************************)
(* Values.                                                                 *)
(***************************************************************************)
\* None, and also the id no row ever has: ids are assigned from 1 upwards
\* and Python treats None and 0 alike in "if x:".
Null == 0

\* The user seeded by initialize_default_data.
AdminId == 1

STANDARD == "standard"

UNCLASSIFIED == <<"U", "N", "C", "L", "A", "S", "S", "I", "F", "I", "E", "D">>

\* The outcome of a request: the abstract error taxonomy over the HTTP codes.
\* 404 NotFound, 403 Forbidden, 400 Conflict (duplicate name, duplicate
\* type) or Validation (any other 400), 500 Error; NoResponse for a handler
\* that does not return.
Statuses ==
    {"OK", "NotFound", "Forbidden", "Conflict", "Validation", "Error", "NoResponse"}

(***************************************************************************)
(* _normalize_name: strip, then collapse every run of whitespace to " ".   *)
(***************************************************************************)
IsSpace(c) == c \in {" ", "\t", "\n"}

RECURSIVE LStrip(_)
LStrip(s) ==
    IF s = <<>> THEN s
    ELSE IF IsSpace(Head(s)) THEN LStrip(Tail(s)) ELSE s

RECURSIVE RStrip(_)
RStrip(s) ==
    IF s = <<>> THEN s
    ELSE IF IsSpace(s[Len(s)]) THEN RStrip(SubSeq(s, 1, Len(s) - 1)) ELSE s

\* str.strip()
Strip(s) == RStrip(LStrip(s))

\* re.sub(r"\s+", " ", s): every maximal run of whitespace becomes one space.
RECURSIVE CollapseSpaces(_)
CollapseSpaces(s) ==
    IF s = <<>> THEN s
    ELSE IF IsSpace(Head(s))
         THEN <<" ">> \o CollapseSpaces(LStrip(Tail(s)))
         ELSE <<Head(s)>> \o CollapseSpaces(Tail(s))

_normalize_name(raw_name) == CollapseSpaces(Strip(raw_name))

(***************************************************************************)
(* The store.                                                              *)
(***************************************************************************)
\* The tables as one value, as a session sees them.
DB == [users |-> users, types |-> types, cats |-> cats,
       recipients |-> recipients, items |-> items, links |-> links]

Max(S) == CHOOSE m \in S : \A n \in S : n <= m

\* The id the store gives the next row of a table whose rows are 1..n.
NextId(table) == Len(table) + 1

\* The id the store gives the next payment item: rows can be deleted, and the
\* rowid of a new row is one more than the largest in use.
NextItemId(db) == Max(DOMAIN db.items \cup {0}) + 1

\* session.get(Model, id): the row, if there is one.
HasType(db, id) == id \in DOMAIN db.types
HasCat(db, id) == id \in DOMAIN db.cats
HasRecipient(db, id) == id \in DOMAIN db.recipients
HasItem(db, id) == id \in DOMAIN db.items

\* select(CategoryType).where(name == "standard", user_id == u).first():
\* the rows the query matches; first() returns one of them, or None.
StandardTypes(db, u) ==
    {t \in DOMAIN db.types : db.types[t].name = STANDARD /\ db.types[t].user_id = u}

\* select(Category).where(name == "UNCLASSIFIED", user_id == u).first()
DefaultCats(db, u) ==
    {c \in DOMAIN db.cats : db.cats[c].name = UNCLASSIFIED /\ db.cats[c].user_id = u}

\* What .first() can return for a query that matches the rows S.
First(S) == IF S = {} THEN {Null} ELSE S

\* Mutant: the writes of a request that raises stay in the store.
RollbackKeepsWrites(db, dirty) == dirty

\* A handler's result: its status and the store after the request.  A request
\* that raises leaves its session uncommitted, and get_session closes the
\* session, which rolls back whatever the handler had written.
Rollback(db, dirty) == db

Fail(db, status) == [status |-> status, db |-> db]

Ok(db) == [status |-> "OK", db |-> db]

(***************************************************************************)
(* Account provisioning.                                                   *)
(***************************************************************************)
\* The standard type and the UNCLASSIFIED category of a new account.
DefaultType(u) == [name |-> STANDARD, user_id |-> u]

DefaultCategory(type_id, u) ==
    [name |-> UNCLASSIFIED, type_id |-> type_id, parent_id |-> Null, user_id |-> u]

\* initialize_default_data on an empty database: the admin user, its
\* standard type and its UNCLASSIFIED category.
InitialDB ==
    [users |-> {AdminId},
     types |-> <<DefaultType(AdminId)>>,
     cats |-> <<DefaultCategory(1, AdminId)>>,
     recipients |-> <<>>,
     items |-> <<>>,
     links |-> {}]

\* register: a new user with its own standard type and UNCLASSIFIED category.
\* (The checks of the username and the password precede every write and are
\* not modelled: a rejected registration leaves the store as it was.)
register(db) ==
    LET new_user == Max(db.users) + 1
        type_id == NextId(db.types)
    IN  Ok([db EXCEPT !.users = @ \cup {new_user},
                      !.types = Append(@, DefaultType(new_user)),
                      !.cats = Append(@, DefaultCategory(type_id, new_user))])

(***************************************************************************)
(* Category types.                                                         *)
(***************************************************************************)
\* create_category_type: the type is stored as sent, owned by the caller.
create_category_type(db, u, name) ==
    Ok([db EXCEPT !.types = Append(@, [name |-> name, user_id |-> u])])

(***************************************************************************)
(* Categories.                                                             *)
(***************************************************************************)
\* Mutant: the duplicate check finds nothing.
NameExistsNever(table, u, exclude, normalized_name) == FALSE

\* Whether a row of table owned by u, other than row exclude, has the
\* normalized name.
NameExists(table, u, exclude, normalized_name) ==
    \E id \in DOMAIN table :
        /\ id # exclude
        /\ table[id].user_id = u
        /\ _normalize_name(table[id].name) = normalized_name

\* create_category.  req: [name, type_id, parent_id].
create_category(db, u, req) ==
    LET normalized_name == _normalize_name(req.name) IN
    IF normalized_name = <<>> THEN Fail(db, "Validation")
    ELSE IF NameExists(db.cats, u, Null, normalized_name) THEN Fail(db, "Conflict")
    ELSE IF req.parent_id # Null /\ ~HasCat(db, req.parent_id) THEN Fail(db, "NotFound")
    ELSE IF ~HasType(db, req.type_id) THEN Fail(db, "NotFound")
    ELSE Ok([db EXCEPT !.cats = Append(@,
                [name |-> normalized_name, type_id |-> req.type_id,
                 parent_id |-> req.parent_id, user_id |-> u])])

\* update_category.  req: [set, name, type_id, parent_id], set the fields the
\* request carries (exclude_unset); a carried parent_id of None makes the
\* category a root.
update_category(db, u, category_id, req) ==
    IF ~HasCat(db, category_id) THEN Fail(db, "NotFound")
    ELSE IF db.cats[category_id].user_id # u THEN Fail(db, "Forbidden")
    ELSE
    LET normalized_name == _normalize_name(req.name)
        category == db.cats[category_id]
        updated ==
            [category EXCEPT
                !.name = IF "name" \in req.set THEN normalized_name ELSE @,
                !.type_id = IF "type_id" \in req.set THEN req.type_id ELSE @,
                !.parent_id = IF "parent_id" \in req.set THEN req.parent_id ELSE @]
    IN
    IF "name" \in req.set /\ normalized_name = <<>> THEN Fail(db, "Validation")
    ELSE IF "name" \in req.set /\ NameExists(db.cats, u, category_id, normalized_name)
         THEN Fail(db, "Conflict")
    ELSE IF "parent_id" \in req.set /\ req.parent_id # Null /\ ~HasCat(db, req.parent_id)
         THEN Fail(db, "NotFound")
    ELSE IF "type_id" \in req.set /\ req.type_id # Null /\ ~HasType(db, req.type_id)
         THEN Fail(db, "NotFound")
    \* type_id is NOT NULL: a carried None fails at commit
    ELSE IF "type_id" \in req.set /\ req.type_id = Null THEN Fail(db, "Error")
    ELSE Ok([db EXCEPT !.cats[category_id] = updated])

(***************************************************************************)
(* Recipients.                                                             *)
(***************************************************************************)
\* recipient.address.strip() if recipient.address else None; the empty
\* address is None.
NoAddress == <<>>

CleanAddress(address) == Strip(address)

\* create_recipient.  req: [name, address].
create_recipient(db, u, req) ==
    LET normalized_name == _normalize_name(req.name) IN
    IF normalized_name = <<>> THEN Fail(db, "Validation")
    ELSE IF NameExists(db.recipients, u, Null, normalized_name) THEN Fail(db, "Conflict")
    ELSE Ok([db EXCEPT !.recipients = Append(@,
                [name |-> normalized_name, address |-> CleanAddress(req.address),
                 user_id |-> u])])

\* update_recipient.  req: [set, name, address].
update_recipient(db, u, recipient_id, req) ==
    IF ~HasRecipient(db, recipient_id) THEN Fail(db, "NotFound")
    ELSE IF db.recipients[recipient_id].user_id # u THEN Fail(db, "Forbidden")
    ELSE
    LET normalized_name == _normalize_name(req.name)
        updated ==
            [db.recipients[recipient_id] EXCEPT
                !.name = IF "name" \in req.set THEN normalized_name ELSE @,
                !.address = IF "address" \in req.set THEN CleanAddress(req.address) ELSE @]
    IN
    IF "name" \in req.set /\ normalized_name = <<>> THEN Fail(db, "Validation")
    ELSE IF "name" \in req.set /\ NameExists(db.recipients, u, recipient_id, normalized_name)
         THEN Fail(db, "Conflict")
    ELSE Ok([db EXCEPT !.recipients[recipient_id] = updated])

(***************************************************************************)
(* Payment items.                                                          *)
(***************************************************************************)
\* The categories linked to an item.
CategoriesOf(db, item_id) == {c \in DOMAIN db.cats : <<item_id, c>> \in db.links}

Range(seq) == {seq[i] : i \in DOMAIN seq}

\* The validation loop over category_ids, shared by create_payment_item and
\* update_payment_item: the status of the first id that fails, in list order;
\* seen_types are the types of the ids before it.
RECURSIVE ValidateCategories(_, _, _, _)
ValidateCategories(db, u, category_ids, seen_types) ==
    IF category_ids = <<>> THEN "OK"
    ELSE LET cat_id == Head(category_ids) IN
         IF ~HasCat(db, cat_id) THEN "NotFound"
         ELSE IF db.cats[cat_id].user_id # u THEN "Forbidden"
         ELSE IF db.cats[cat_id].type_id \in seen_types THEN "Conflict"
         ELSE ValidateCategories(db, u, Tail(category_ids),
                                 seen_types \cup {db.cats[cat_id].type_id})

\* standard_category_id as the loop leaves it: the last id of the list whose
\* category has the standard type, or None.
RECURSIVE StandardCategoryOf(_, _, _)
StandardCategoryOf(db, category_ids, standard_type_id) ==
    IF category_ids = <<>> THEN Null
    ELSE LET n == Len(category_ids)
             cat_id == category_ids[n]
         IN  IF standard_type_id # Null /\ db.cats[cat_id].type_id = standard_type_id
             THEN cat_id
             ELSE StandardCategoryOf(db, SubSeq(category_ids, 1, n - 1), standard_type_id)

\* The check of a request's recipient_id: skipped for None (and 0).
ValidateRecipient(db, u, recipient_id) ==
    IF recipient_id = Null THEN "OK"
    ELSE IF ~HasRecipient(db, recipient_id) THEN "NotFound"
    ELSE IF db.recipients[recipient_id].user_id # u THEN "Forbidden"
    ELSE "OK"

\* The categories an item gets: the validated list, or the default category
\* (if the user has one) when the list is empty.
AssignedCategories(category_ids, default_cat) ==
    IF category_ids # <<>> THEN category_ids
    ELSE IF default_cat # Null THEN <<default_cat>> ELSE <<>>

\* create_payment_item.  req: [amount, recipient_id, category_ids];
\* standard_type_id and default_cat are what the two .first() queries return.
create_payment_item(db, u, req, standard_type_id, default_cat) ==
    LET recipient_status == ValidateRecipient(db, u, req.recipient_id)
        categories_status == ValidateCategories(db, u, req.category_ids, {})
        category_ids == AssignedCategories(req.category_ids, default_cat)
        item_id == NextItemId(db)
        db_item == [amount |-> req.amount,
                    recipient_id |-> req.recipient_id,
                    standard_category_id |->
                        StandardCategoryOf(db, category_ids, standard_type_id),
                    user_id |-> u]
    IN
    IF recipient_status # "OK" THEN Fail(db, recipient_status)
    ELSE IF categories_status # "OK" THEN Fail(db, categories_status)
    ELSE Ok([db EXCEPT
                !.items = [i \in DOMAIN @ \cup {item_id} |->
                              IF i = item_id THEN db_item ELSE @[i]],
                !.links = @ \cup {<<item_id, c>> : c \in Range(category_ids)}])

\* Mutant: the tag list is processed whether the request carries it or not.
CarriesAlways(req) == TRUE

\* item_update.category_ids is not None
CarriesCategories(req) == "category_ids" \in req.set

\* Mutant: the existing links of the item stay.
KeepLinks(db, item_id) == db.links

\* The links after "for link in existing_links: session.delete(link)".
DeleteLinks(db, item_id) == {l \in db.links : l[1] # item_id}

\* Mutant: only the tag list is kept from the loop over the carried keys.
DeferredKeys == {"category_ids"}

\* if key not in ("category_ids", "user_id")
ProtectedKeys == {"category_ids", "user_id"}

\* update_payment_item.  req: [set, amount, recipient_id, standard_category_id,
\* category_ids, user_id], set the fields the request carries.  The handler
\* writes the carried fields and deletes the links before it validates; dirty
\* is the session at the point of a failure.
update_payment_item(db, u, item_id, req, standard_type_id, default_cat) ==
    IF ~HasItem(db, item_id) THEN Fail(db, "NotFound")
    ELSE IF db.items[item_id].user_id # u THEN Fail(db, "Forbidden")
    ELSE
    LET \* 1. the standard fields: every carried key but category_ids, user_id
        fields_set ==
            [db.items[item_id] EXCEPT
                !.amount = IF "amount" \in req.set THEN req.amount ELSE @,
                !.recipient_id = IF "recipient_id" \in req.set THEN req.recipient_id ELSE @,
                !.standard_category_id =
                    IF "standard_category_id" \in req.set
                    THEN req.standard_category_id ELSE @,
                !.user_id = IF "user_id" \in req.set \ ProtectedKeys
                            THEN req.user_id ELSE @]
        dirty1 == [db EXCEPT !.items[item_id] = fields_set]
        \* 2. the recipient
        recipient_id == IF "recipient_id" \in req.set THEN req.recipient_id ELSE Null
        recipient_status == ValidateRecipient(db, u, recipient_id)
        \* 3. the categories
        with_categories == CarriesCategories(req)
        dirty2 == [dirty1 EXCEPT !.links = DeleteLinks(dirty1, item_id)]
        categories_status == ValidateCategories(db, u, req.category_ids, {})
        category_ids == AssignedCategories(req.category_ids, default_cat)
        done ==
            [dirty2 EXCEPT
                !.links = @ \cup {<<item_id, c>> : c \in Range(category_ids)},
                !.items[item_id].standard_category_id =
                    StandardCategoryOf(db, category_ids, standard_type_id)]
    IN
    IF recipient_status # "OK" THEN Fail(Rollback(db, dirty1), recipient_status)
    ELSE IF ~with_categories THEN Ok(dirty1)
    ELSE IF categories_status # "OK" THEN Fail(Rollback(db, dirty2), categories_status)
    ELSE Ok(done)

\* create_payment_item up to its first commit: the item is in the store,
\* its links are not.
create_payment_item_add(db, u, req, standard_type_id, default_cat) ==
    LET r == create_payment_item(db, u, req, standard_type_id, default_cat)
    IN  IF r.status # "OK" THEN r ELSE Ok([r.db EXCEPT !.links = db.links])

\* create_payment_item from there to its second commit: the links.
create_payment_item_link(db, item_id, category_ids) ==
    Ok([db EXCEPT !.links = @ \cup {<<item_id, c>> : c \in Range(category_ids)}])

\* delete_payment_item: the item's links, then the item.
delete_payment_item(db, u, item_id) ==
    IF ~HasItem(db, item_id) THEN Fail(db, "NotFound")
    ELSE IF db.items[item_id].user_id # u THEN Fail(db, "Forbidden")
    ELSE Ok([db EXCEPT
                !.links = {l \in @ : l[1] # item_id},
                !.items = [i \in DOMAIN @ \ {item_id} |-> @[i]]])

\* delete_payment_item up to its first commit: the links are deleted, the
\* item is in the store.
delete_payment_item_links(db, u, item_id) ==
    LET r == delete_payment_item(db, u, item_id)
    IN  IF r.status # "OK" THEN r ELSE Ok([r.db EXCEPT !.items = db.items])

\* delete_payment_item from there to its second commit: the item.
delete_payment_item_item(db, item_id) ==
    Ok([db EXCEPT !.items = [i \in DOMAIN @ \ {item_id} |-> @[i]]])

(***************************************************************************)
(* Queries.  A result is the list of ids of the rows returned; the rows of *)
(* a select come in the order of their ids.                                *)
(***************************************************************************)
\* The ids of S in ascending order.
RECURSIVE Ascending(_)
Ascending(S) ==
    IF S = {} THEN <<>>
    ELSE LET least == CHOOSE m \in S : \A x \in S : m <= x
         IN  <<least>> \o Ascending(S \ {least})

\* select(Category).where(Category.parent_id == current): the categories of
\* any owner whose parent is current.
ChildrenOf(db, current) ==
    {c \in DOMAIN db.cats : db.cats[c].parent_id = current}

\* The request got no response.
NoResponse(db) == [status |-> "NoResponse", db |-> db, results |-> <<>>]

\* The while loop of list_category_descendants: every child of the head of
\* the queue is appended to the result and to the queue.  A category on a
\* cycle of parents is enqueued again and again; steps is the number of
\* rounds left before the model gives the loop up as endless.
RECURSIVE DescendantsLoop(_, _, _, _)
DescendantsLoop(db, queue, descendants, steps) ==
    IF queue = <<>> THEN [status |-> "OK", db |-> db, results |-> descendants]
    ELSE IF steps = 0 THEN NoResponse(db)
    ELSE LET children == Ascending(ChildrenOf(db, Head(queue)))
         IN  DescendantsLoop(db, Tail(queue) \o children, descendants \o children,
                             steps - 1)

\* list_category_descendants.  Without a cycle the loop takes every
\* category from the queue at most once.
list_category_descendants(db, u, category_id) ==
    IF ~HasCat(db, category_id) THEN Fail(db, "NotFound") @@ [results |-> <<>>]
    ELSE IF db.cats[category_id].user_id # u
         THEN Fail(db, "Forbidden") @@ [results |-> <<>>]
    ELSE DescendantsLoop(db, <<category_id>>, <<>>, Len(db.cats) + 1)

\* Mutant: only the children of the root are gathered.
gather_children(db, root_id, expanded_ids) ==
    [done |-> TRUE, expanded_ids |-> expanded_ids \cup ChildrenOf(db, root_id)]

\* Mutant: every child is taken, whether it is in expanded_ids or not.
FreshOrNot(db, current, expanded_ids) == ChildrenOf(db, current)

\* The children of current that pass "if child_id not in expanded_ids".
Fresh(db, current, expanded_ids) == ChildrenOf(db, current) \ expanded_ids

\* The while loop of gather_descendants: the children of the head of the
\* queue that are not in expanded_ids yet are added to it and to the queue.
\* steps is the number of rounds left; done tells whether the queue was
\* emptied within them.
RECURSIVE GatherLoop(_, _, _, _)
GatherLoop(db, queue, expanded_ids, steps) ==
    IF queue = <<>> THEN [done |-> TRUE, expanded_ids |-> expanded_ids]
    ELSE IF steps = 0 THEN [done |-> FALSE, expanded_ids |-> expanded_ids]
    ELSE LET fresh == Fresh(db, Head(queue), expanded_ids)
         IN  GatherLoop(db, Tail(queue) \o Ascending(fresh), expanded_ids \cup fresh,
                        steps - 1)

\* gather_descendants(root_id), which updates expanded_ids.  The loop is
\* given one round for the root and one for every category of the store.
gather_descendants(db, root_id, expanded_ids) ==
    GatherLoop(db, <<root_id>>, expanded_ids, Len(db.cats) + 1)

\* Mutant: the descendants of the first id of the list only.
GatherHead(db, category_ids, expanded_ids) ==
    IF category_ids = <<>> THEN [done |-> TRUE, expanded_ids |-> expanded_ids]
    ELSE gather_descendants(db, Head(category_ids), expanded_ids)

\* for cat_id in list(category_ids): gather_descendants(cat_id)
RECURSIVE GatherAll(_, _, _)
GatherAll(db, category_ids, expanded_ids) ==
    IF category_ids = <<>> THEN [done |-> TRUE, expanded_ids |-> expanded_ids]
    ELSE LET gathered == gather_descendants(db, Head(category_ids), expanded_ids)
         IN  IF ~gathered.done THEN gathered
             ELSE GatherAll(db, Tail(category_ids), gathered.expanded_ids)

\* Mutant: an amount of zero counts as an expense.
NotPositive(amount) == amount <= 0

\* PaymentItem.amount < 0
IsExpense(amount) == amount < 0

\* PaymentItem.amount > 0
IsIncome(amount) == amount > 0

\* list_payment_items.  category_ids: the filter, empty if the query has
\* none.
list_payment_items(db, u, expense_only, income_only, category_ids) ==
    IF expense_only /\ income_only
    THEN Fail(db, "Validation") @@ [results |-> <<>>]
    ELSE LET gathered == GatherAll(db, category_ids, Range(category_ids))
             expanded_ids == gathered.expanded_ids
             subquery == {l[1] : l \in {m \in db.links : m[2] \in expanded_ids}}
             rows == {i \in DOMAIN db.items :
                        /\ db.items[i].user_id = u
                        /\ expense_only => IsExpense(db.items[i].amount)
                        /\ income_only => IsIncome(db.items[i].amount)
                        /\ category_ids # <<>> => i \in subquery}
         IN  IF ~gathered.done THEN NoResponse(db)
             ELSE Ok(db) @@ [results |-> Ascending(rows)]

(***************************************************************************)
(* CSV import: the uploaded file.  A file is the sequence of its rows, the  *)
(* header first; a row is the sequence of its cells; a cell is a sequence   *)
(* of characters (a word without whitespace, such as a header field, counts *)
(* as one character).  The file name and encoding checks, which come first  *)
(* and write nothing, are left out: the file is a decoded .csv file.        *)
(***************************************************************************)
MAX_DESCRIPTION_LENGTH == 1000
MAX_RECIPIENT_NAME_LENGTH == 255
MAX_RECIPIENT_ADDRESS_LENGTH == 500
MAX_CATEGORY_NAME_LENGTH == 255

CSV_HEADER_FIELDS ==
    <<"amount", "date", "description", "Recipient name", "Recipient address",
      "standard_category name", "periodic">>

\* ";".join(cells)
RECURSIVE Join(_)
Join(cells) ==
    IF cells = <<>> THEN <<>>
    ELSE IF Len(cells) = 1 THEN cells[1]
    ELSE cells[1] \o <<";">> \o Join(Tail(cells))

CSV_HEADER == Join([i \in DOMAIN CSV_HEADER_FIELDS |-> <<CSV_HEADER_FIELDS[i]>>])

Digits == <<"0", "1", "2", "3", "4", "5", "6", "7", "8", "9">>

\* \d
IsDigit(c) == \E i \in DOMAIN Digits : Digits[i] = c

\* \d+
AllDigits(s) == s # <<>> /\ \A i \in DOMAIN s : IsDigit(s[i])

\* int(s) for a string of digits.
RECURSIVE Number(_)
Number(s) ==
    IF s = <<>> THEN 0
    ELSE 10 * Number(SubSeq(s, 1, Len(s) - 1))
            + (CHOOSE i \in DOMAIN Digits : Digits[i] = s[Len(s)]) - 1

\* AMOUNT_PATTERN: ^-?\d+(?:\.\d+)?$
AmountMatches(s) ==
    LET body == IF s # <<>> /\ Head(s) = "-" THEN Tail(s) ELSE s
        dots == {i \in DOMAIN body : body[i] = "."}
    IN  IF dots = {} THEN AllDigits(body)
        ELSE /\ Cardinality(dots) = 1
             /\ \A d \in dots : /\ AllDigits(SubSeq(body, 1, d - 1))
                                 /\ AllDigits(SubSeq(body, d + 1, Len(body)))

\* float(amount_str).  Amounts are counted in tenths throughout: the first
\* digit after the point is kept, further digits are beyond the precision of
\* the model.
AmountValue(s) ==
    LET negative == s # <<>> /\ Head(s) = "-"
        body == IF negative THEN Tail(s) ELSE s
        dots == {i \in DOMAIN body : body[i] = "."}
        point == IF dots = {} THEN Len(body) + 1 ELSE CHOOSE d \in dots : TRUE
        tenths == 10 * Number(SubSeq(body, 1, point - 1))
                    + (IF point < Len(body) THEN Number(<<body[point + 1]>>) ELSE 0)
    IN  IF negative THEN 0 - tenths ELSE tenths

\* DATE_PATTERN: ^\d{4}-\d{2}-\d{2}$
DateMatches(s) ==
    /\ Len(s) = 10
    /\ \A i \in {1, 2, 3, 4, 6, 7, 9, 10} : IsDigit(s[i])
    /\ s[5] = "-" /\ s[8] = "-"

DaysInMonth(year, month) ==
    IF month = 2
    THEN IF year % 4 = 0 /\ (year % 100 # 0 \/ year % 400 = 0) THEN 29 ELSE 28
    ELSE IF month \in {4, 6, 9, 11} THEN 30 ELSE 31

\* datetime.strptime(date_str, "%Y-%m-%d") returns a date: the year is at
\* least 1 and the day exists in the calendar.
DateExists(s) ==
    LET year == Number(SubSeq(s, 1, 4))
        month == Number(SubSeq(s, 6, 7))
        day == Number(SubSeq(s, 9, 10))
    IN  /\ year >= 1
        /\ month \in 1 .. 12
        /\ day \in 1 .. DaysInMonth(year, month)

\* str.lower() of a periodic cell, whose words are spellings of true/false.
Lower(s) ==
    [i \in DOMAIN s |->
        IF s[i] \in {"TRUE", "True"} THEN "true"
        ELSE IF s[i] \in {"FALSE", "False"} THEN "false" ELSE s[i]]

\* BOOLEAN_PATTERN on the lowered cell: ^(true|false)$
BooleanMatches(s) == s \in {<<"true">>, <<"false">>}

\* A completely blank row: no cell, or only cells of whitespace.
IsBlank(row) == \A i \in DOMAIN row : Strip(row[i]) = <<>>

\* The checks of one data row that is not blank, in the order of the code.
RowValid(row) ==
    /\ Len(row) = Len(CSV_HEADER_FIELDS)
    /\ AmountMatches(Strip(row[1]))
    /\ DateMatches(Strip(row[2]))
    /\ BooleanMatches(Lower(Strip(row[7])))
    /\ Len(Strip(row[3])) <= MAX_DESCRIPTION_LENGTH
    /\ Len(Strip(row[4])) <= MAX_RECIPIENT_NAME_LENGTH
    /\ Len(Strip(row[5])) <= MAX_RECIPIENT_ADDRESS_LENGTH
    /\ Len(Strip(row[6])) <= MAX_CATEGORY_NAME_LENGTH
    /\ DateExists(Strip(row[2]))

\* The header check: the stripped cells, joined, are CSV_HEADER.
HeaderMatches(header_row) ==
    Join([i \in DOMAIN header_row |-> Strip(header_row[i])]) = CSV_HEADER

\* The data rows that are not blank, in file order.
RECURSIVE DataRows(_)
DataRows(rows) ==
    IF rows = <<>> THEN <<>>
    ELSE IF IsBlank(Head(rows)) THEN DataRows(Tail(rows))
    ELSE <<Head(rows)>> \o DataRows(Tail(rows))

\* Mutant: only the first data row is checked.
FirstRowValid(lines) ==
    /\ lines # <<>>
    /\ HeaderMatches(Head(lines))
    /\ DataRows(Tail(lines)) # <<>> => RowValid(DataRows(Tail(lines))[1])

\* Whether the parse loop gets through the file: the file has a header that
\* matches and every data row passes its checks.
FileValid(lines) ==
    /\ lines # <<>>
    /\ HeaderMatches(Head(lines))
    /\ LET data_rows == DataRows(Tail(lines))
       IN  \A i \in DOMAIN data_rows : RowValid(data_rows[i])

(***************************************************************************)
(* CSV import: reconciliation and materialization of the parsed rows.      *)
(***************************************************************************)
\* A valid data row as the parse loop leaves it.
ParsedRow(row) ==
    LET recipient_name == Strip(row[4])
        category_name == Strip(row[6])
    IN  [amount |-> AmountValue(Strip(row[1])),
         recipient_address |-> Strip(row[5]),
         normalized_recipient |->
            IF recipient_name # <<>> THEN _normalize_name(recipient_name) ELSE <<>>,
         normalized_category |->
            IF category_name # <<>> THEN _normalize_name(category_name) ELSE <<>>]

\* parsed_rows after the loop over a valid file; nothing of a file that a
\* check stops.
ParsedRows(lines) ==
    IF ~FileValid(lines) THEN <<>>
    ELSE LET data_rows == DataRows(Tail(lines))
         IN  [i \in DOMAIN data_rows |-> ParsedRow(data_rows[i])]

\* The keys of recipient_import_data in insertion order: the normalized
\* recipient names in the order of their first row.
RECURSIVE RecipientNames(_)
RecipientNames(parsed_rows) ==
    IF parsed_rows = <<>> THEN <<>>
    ELSE LET n == Len(parsed_rows)
             before == RecipientNames(SubSeq(parsed_rows, 1, n - 1))
             name == parsed_rows[n].normalized_recipient
         IN  IF name = <<>> \/ name \in Range(before) THEN before
             ELSE Append(before, name)

\* Mutant: the first row that names the recipient wins.
ImportAddressFirst(parsed_rows, name) ==
    LET rows == {i \in DOMAIN parsed_rows : parsed_rows[i].normalized_recipient = name}
        first_row == CHOOSE i \in rows : \A j \in rows : i <= j
    IN  parsed_rows[first_row].recipient_address

\* recipient_import_data[name]["address"]: the address of the last row that
\* names the recipient.
ImportAddress(parsed_rows, name) ==
    LET last_row == Max({i \in DOMAIN parsed_rows :
                            parsed_rows[i].normalized_recipient = name})
    IN  parsed_rows[last_row].recipient_address

\* category_names: the set of normalized category names of the rows.
CategoryNames(parsed_rows) ==
    {parsed_rows[i].normalized_category : i \in DOMAIN parsed_rows} \ {<<>>}

\* Mutant: the lookups hold the rows of every user.
LookupAnyOwner(table, u, name) ==
    LET found == {id \in DOMAIN table : _normalize_name(table[id].name) = name}
    IN  IF found = {} THEN Null ELSE CHOOSE id \in found : \A other \in found : other <= id

\* Mutant: the lookups are empty.
LookupNothing(table, u, name) == Null

\* recipient_lookup.get(name), category_lookup.get(name): the user's row with
\* the normalized name (the dict keeps the last row read), or None.
Lookup(table, u, name) ==
    LET found == {id \in DOMAIN table :
                    table[id].user_id = u /\ _normalize_name(table[id].name) = name}
    IN  IF found = {} THEN Null ELSE Max(found)

\* The loop over recipient_import_data: update the address of an existing
\* recipient if it differs, create a missing one.  acc: [db, created, updated].
RECURSIVE ReconcileRecipients(_, _, _, _)
ReconcileRecipients(acc, u, names, parsed_rows) ==
    IF names = <<>> THEN acc
    ELSE LET name == Head(names)
             address == ImportAddress(parsed_rows, name)
             existing == Lookup(acc.db.recipients, u, name)
             next ==
                IF existing # Null
                THEN IF acc.db.recipients[existing].address # address
                     THEN [acc EXCEPT !.db.recipients[existing].address = address,
                                      !.updated = @ + 1]
                     ELSE acc
                ELSE [acc EXCEPT
                        !.db.recipients = Append(@,
                            [name |-> name, address |-> address, user_id |-> u]),
                        !.created = @ + 1]
         IN  ReconcileRecipients(next, u, Tail(names), parsed_rows)

\* Mutant: the new category is put under the first category of the store.
NewCategoryNested(name, standard_type_id, u) ==
    [name |-> name, type_id |-> standard_type_id, parent_id |-> 1, user_id |-> u]

\* Category(name=name, type_id=standard_type.id, parent_id=None,
\* user_id=current_user.id)
NewCategory(name, standard_type_id, u) ==
    [name |-> name, type_id |-> standard_type_id, parent_id |-> Null, user_id |-> u]

\* The loop over category_names, in the order the set is iterated: create
\* every category that the user does not have, in the standard type.
RECURSIVE ReconcileCategories(_, _, _, _)
ReconcileCategories(acc, u, names, standard_type_id) ==
    IF names = <<>> THEN acc
    ELSE LET name == Head(names)
             next ==
                IF Lookup(acc.db.cats, u, name) # Null THEN acc
                ELSE [acc EXCEPT
                        !.db.cats = Append(@, NewCategory(name, standard_type_id, u)),
                        !.created = @ + 1]
         IN  ReconcileCategories(next, u, Tail(names), standard_type_id)

\* The payment item of one parsed row, and its link.
RECURSIVE MaterializeRows(_, _, _, _)
MaterializeRows(db, u, parsed_rows, default_category) ==
    IF parsed_rows = <<>> THEN db
    ELSE LET row == Head(parsed_rows)
             recipient_id ==
                IF row.normalized_recipient # <<>>
                THEN Lookup(db.recipients, u, row.normalized_recipient) ELSE Null
             category_id ==
                IF row.normalized_category # <<>>
                THEN Lookup(db.cats, u, row.normalized_category)
                ELSE default_category
             item_id == NextItemId(db)
             payment_item == [amount |-> row.amount,
                              recipient_id |-> recipient_id,
                              standard_category_id |-> category_id,
                              user_id |-> u]
             next ==
                [db EXCEPT
                    !.items = [i \in DOMAIN @ \cup {item_id} |->
                                  IF i = item_id THEN payment_item ELSE @[i]],
                    !.links = IF category_id # Null
                              THEN @ \cup {<<item_id, category_id>>} ELSE @]
         IN  MaterializeRows(next, u, Tail(parsed_rows), default_category)

\* A response of import_csv that reports nothing.
ImportFail(db, status) ==
    [status |-> status, db |-> db, created_payments |-> 0,
     created_recipients |-> 0, updated_recipients |-> 0, created_categories |-> 0]

\* import_csv.  lines: the rows of the file; category_order: category_names
\* in the order the set is iterated; standard_type_id, default_category: what
\* the two .first() queries return.  The result carries the counts the
\* handler reports.
import_csv(db, u, lines, category_order, standard_type_id, default_category) ==
    LET parsed_rows == ParsedRows(lines)
        rec == ReconcileRecipients([db |-> db, created |-> 0, updated |-> 0], u,
                                   RecipientNames(parsed_rows), parsed_rows)
        cat == ReconcileCategories([db |-> rec.db, created |-> 0], u,
                                   category_order, standard_type_id)
        done == MaterializeRows(cat.db, u, parsed_rows, default_category)
    IN
    IF ~FileValid(lines) THEN ImportFail(db, "Validation")
    ELSE IF parsed_rows = <<>> THEN ImportFail(db, "Validation")
    ELSE IF standard_type_id = Null THEN ImportFail(db, "Error")
    ELSE [status |-> "OK", db |-> done, created_payments |-> Len(parsed_rows),
          created_recipients |-> rec.created, updated_recipients |-> rec.updated,
          created_categories |-> cat.created]

(***************************************************************************)
(* The state machine.  Requests come from registered users; a client is    *)
(* the set of requests a specification draws from: c.names, c.addresses,   *)
(* c.type_names, c.amounts, the carried-key sets c.category_keys,          *)
(* c.recipient_keys and c.item_keys, the cells, rows and files of its       *)
(* uploads, the ids c.type_ids and c.parent_ids                             *)
(* it names as a category's type and parent, the sizes c.max_* the tables   *)
(* may reach, and c.observe: whether the client keeps the last response.    *)
(***************************************************************************)
\* No request is between two commits.
NoCall == [op |-> "none", item_id |-> Null, linked |-> {}]

Init ==
    /\ users = InitialDB.users
    /\ types = InitialDB.types
    /\ cats = InitialDB.cats
    /\ recipients = InitialDB.recipients
    /\ items = InitialDB.items
    /\ links = InitialDB.links
    /\ last = [op |-> "startup", status |-> "OK"]
    /\ inflight = NoCall
    /\ calls = {}

\* The tables, and the ids of the payment items, stay within the client's
\* sizes.
Fits(db, c) ==
    /\ Cardinality(db.users) <= c.max_users
    /\ Len(db.types) <= c.max_types
    /\ Len(db.cats) <= c.max_cats
    /\ Len(db.recipients) <= c.max_recipients
    /\ DOMAIN db.items \subseteq 1 .. c.max_items

\* The request op ends with result r: its store is the committed one.
Respond(op, r, c) ==
    /\ Fits(r.db, c)
    /\ users' = r.db.users
    /\ types' = r.db.types
    /\ cats' = r.db.cats
    /\ recipients' = r.db.recipients
    /\ items' = r.db.items
    /\ links' = r.db.links
    /\ last' = IF c.observe THEN [op |-> op, status |-> r.status] ELSE last
    /\ inflight' = inflight
    /\ calls' = calls

\* Ids a request can name: the rows of the table, and one that is missing.
IdsOf(table) == 1 .. (Len(table) + 1)

Register(c) == Respond("register", register(DB), c)

CreateCategoryType(c) ==
    \E u \in users, name \in c.type_names :
        Respond("create_category_type", create_category_type(DB, u, name), c)

CreateCategory(c) ==
    \E u \in users, name \in c.names, type_id \in IdsOf(types) \cap c.type_ids,
       parent_id \in ({Null} \cup IdsOf(cats)) \cap c.parent_ids :
        Respond("create_category",
                create_category(DB, u, [name |-> name, type_id |-> type_id,
                                        parent_id |-> parent_id]), c)

\* A field that the request does not carry is drawn as one fixed value.
Carried(key, keys, values, unset) == IF key \in keys THEN values ELSE {unset}

UpdateCategory(c) ==
    \E u \in users, category_id \in IdsOf(cats), keys \in c.category_keys :
    \E name \in Carried("name", keys, c.names, <<>>),
       type_id \in Carried("type_id", keys,
                            ({Null} \cup IdsOf(types)) \cap c.type_ids, Null),
       parent_id \in Carried("parent_id", keys,
                              ({Null} \cup IdsOf(cats)) \cap c.parent_ids, Null) :
        Respond("update_category",
                update_category(DB, u, category_id,
                                [set |-> keys, name |-> name, type_id |-> type_id,
                                 parent_id |-> parent_id]), c)

CreateRecipient(c) ==
    \E u \in users, name \in c.names, address \in c.addresses :
        Respond("create_recipient",
                create_recipient(DB, u, [name |-> name, address |-> address]), c)

UpdateRecipient(c) ==
    \E u \in users, recipient_id \in IdsOf(recipients), keys \in c.recipient_keys :
    \E name \in Carried("name", keys, c.names, <<>>),
       address \in Carried("address", keys, c.addresses, <<>>) :
        Respond("update_recipient",
                update_recipient(DB, u, recipient_id,
                                 [set |-> keys, name |-> name, address |-> address]), c)

\* The lists of at most n ids out of S.
RECURSIVE ListsUpTo(_, _)
ListsUpTo(S, n) ==
    IF n = 0 THEN {<<>>}
    ELSE LET shorter == ListsUpTo(S, n - 1)
         IN  shorter \cup {Append(l, x) : l \in {m \in shorter : Len(m) = n - 1}, x \in S}

\* The requests a client can send in the current state.
CreateItemRequests(c) ==
    [amount : c.amounts,
     recipient_id : {Null} \cup IdsOf(recipients),
     category_ids : ListsUpTo(IdsOf(cats), c.max_tag_list)]

UpdateItemRequests(c) ==
    UNION {[set : {keys},
            amount : Carried("amount", keys, c.amounts, 0),
            recipient_id :
                Carried("recipient_id", keys, {Null} \cup IdsOf(recipients), Null),
            standard_category_id :
                Carried("standard_category_id", keys, {Null} \cup IdsOf(cats), Null),
            category_ids :
                Carried("category_ids", keys,
                        ListsUpTo(IdsOf(cats), c.max_tag_list), <<>>),
            user_id : Carried("user_id", keys, users, Null)] : keys \in c.item_keys}

\* The rows a client writes under the header: full rows of its cells, and
\* its other rows (blank, or of another length).
RowsOf(c) ==
    {<<amount, date, description, recipient_name, recipient_address,
       category_name, periodic>> :
        amount \in c.amount_cells, date \in c.date_cells,
        description \in c.descriptions, recipient_name \in c.names \cup {<<>>},
        recipient_address \in c.addresses, category_name \in c.names \cup {<<>>},
        periodic \in c.periodic_cells}
    \cup c.other_rows

\* The files of an upload: a header and at most c.max_rows rows, or nothing.
ImportFiles(c) ==
    UNION {{<<header>> \o rows : header \in c.headers, rows \in [1 .. n -> RowsOf(c)]} :
            n \in 0 .. c.max_rows}
    \cup c.other_files

\* The ids of payment items a request can name: the rows and a missing one.
ItemIds == DOMAIN items \cup {NextItemId(DB)}

\* The sequences that enumerate the set S, each element once.
Orders(S) ==
    {order \in [1 .. Cardinality(S) -> S] : Range(order) = S}

CreatePaymentItem(c) ==
    \E u \in users, req \in CreateItemRequests(c) :
    \E standard_type_id \in First(StandardTypes(DB, u)),
       default_cat \in First(DefaultCats(DB, u)) :
        Respond("create_payment_item",
                create_payment_item(DB, u, req, standard_type_id, default_cat), c)

UpdatePaymentItem(c) ==
    \E u \in users, item_id \in ItemIds, req \in UpdateItemRequests(c) :
    \E standard_type_id \in First(StandardTypes(DB, u)),
       default_cat \in First(DefaultCats(DB, u)) :
        Respond("update_payment_item",
                update_payment_item(DB, u, item_id, req, standard_type_id, default_cat), c)

DeletePaymentItem(c) ==
    \E u \in users, item_id \in ItemIds :
        Respond("delete_payment_item", delete_payment_item(DB, u, item_id), c)

ImportCsv(c) ==
    \E u \in users, lines \in ImportFiles(c) :
    \E standard_type_id \in First(StandardTypes(DB, u)),
       default_category \in First(DefaultCats(DB, u)),
       category_order \in Orders(CategoryNames(ParsedRows(lines))) :
        Respond("import_csv",
                import_csv(DB, u, lines, category_order, standard_type_id,
                           default_category), c)

\* The uploads of a client that sends well-formed files only: one amount,
\* one date, no description.
PlainFiles ==
    [headers |-> {[i \in DOMAIN CSV_HEADER_FIELDS |-> <<CSV_HEADER_FIELDS[i]>>]},
     amount_cells |-> {<<"0", ".", "1">>},
     date_cells |-> {<<"2", "0", "2", "4", "-", "0", "2", "-", "2", "9">>},
     descriptions |-> {<<>>},
     periodic_cells |-> {<<"false">>},
     other_rows |-> {},
     other_files |-> {}]

(***************************************************************************)
(* The whole engine under a small client.                                  *)
(***************************************************************************)
Client ==
    PlainFiles @@
    [names |-> {<<"a">>},
     addresses |-> {<<"x">>, <<>>},
     type_names |-> {STANDARD, "method"},
     type_ids |-> Nat, parent_ids |-> Nat,
     amounts |-> {1},
     category_keys |-> {{}, {"type_id"}},
     recipient_keys |-> {{"name"}, {"address"}},
     item_keys |-> {{}, {"standard_category_id"}, {"category_ids"}},
     max_tag_list |-> MaxTagList,
     max_rows |-> MaxRows,
     observe |-> FALSE,
     max_users |-> MaxUsers, max_types |-> MaxTypes, max_cats |-> MaxCats,
     max_recipients |-> MaxRecipients, max_items |-> MaxItems]

Next ==
    \/ Register(Client)
    \/ CreateCategoryType(Client)
    \/ CreateCategory(Client)
    \/ UpdateCategory(Client)
    \/ CreateRecipient(Client)
    \/ UpdateRecipient(Client)
    \/ CreatePaymentItem(Client)
    \/ UpdatePaymentItem(Client)
    \/ DeletePaymentItem(Client)
    \/ ImportCsv(Client)

Spec == Init /\ [][Next]_vars

\* C1: in every reachable state no payment item is linked to two categories
\* of the same type.
C1_OneCategoryPerType ==
    \A item_id \in DOMAIN items :
        \A c1, c2 \in CategoriesOf(DB, item_id) :
            c1 # c2 => cats[c1].type_id # cats[c2].type_id

\* The linked categories of an item whose type is a standard type of the
\* item's owner.
StandardLinked(db, item_id) ==
    {c \in CategoriesOf(db, item_id) :
        db.cats[c].type_id \in StandardTypes(db, db.items[item_id].user_id)}

\* standard_category_id is the one linked category of the owner's standard
\* type, or None if no linked category has that type.
ShortcutMatches(db, item_id) ==
    IF StandardLinked(db, item_id) = {}
    THEN db.items[item_id].standard_category_id = Null
    ELSE StandardLinked(db, item_id) = {db.items[item_id].standard_category_id}

\* C2: right after every successful create_payment_item and every successful
\* update_payment_item, whatever fields the request carries, the item's
\* standard_category_id matches its links.
C2_ShortcutAfterWrite ==
    \A u \in users :
    \A standard_type_id \in First(StandardTypes(DB, u)),
       default_cat \in First(DefaultCats(DB, u)) :
        /\ \A req \in CreateItemRequests(Client) :
            LET r == create_payment_item(DB, u, req, standard_type_id, default_cat)
            IN  r.status = "OK" => ShortcutMatches(r.db, NextItemId(DB))
        /\ \A item_id \in ItemIds, req \in UpdateItemRequests(Client) :
            LET r == update_payment_item(DB, u, item_id, req, standard_type_id,
                                         default_cat)
            IN  r.status = "OK" => ShortcutMatches(r.db, item_id)

\* C3: every payment item that import_csv creates has a standard_category_id
\* that matches its link: the linked category if that category has the
\* owner's standard type, None otherwise.
C3_ImportShortcut ==
    \A u \in users, lines \in ImportFiles(Client) :
    \A standard_type_id \in First(StandardTypes(DB, u)),
       default_category \in First(DefaultCats(DB, u)),
       category_order \in Orders(CategoryNames(ParsedRows(lines))) :
        LET r == import_csv(DB, u, lines, category_order, standard_type_id,
                            default_category)
        IN  r.status = "OK" =>
                \A item_id \in DOMAIN r.db.items \ DOMAIN items :
                    ShortcutMatches(r.db, item_id)

\* The categories of u named UNCLASSIFIED in a standard type of u.
StandardDefaults(u) ==
    {c \in DefaultCats(DB, u) : cats[c].type_id \in StandardTypes(DB, u)}

\* After the write the item has the single tag UNCLASSIFIED of the standard
\* type, which is its standard category, if u has one; no tag and no
\* standard category if u has none.
DefaultAssigned(u, db, item_id) ==
    IF StandardDefaults(u) # {}
    THEN \E c \in StandardDefaults(u) :
            /\ CategoriesOf(db, item_id) = {c}
            /\ db.items[item_id].standard_category_id = c
    ELSE /\ CategoriesOf(db, item_id) = {}
         /\ db.items[item_id].standard_category_id = Null

\* C16: a create or update request that carries an empty tag list leaves the
\* payment item with UNCLASSIFIED of the caller's standard type as its only
\* tag and its standard category, or, if the caller has no such category,
\* with no tag and no standard category.  Stated for the callers that have
\* one standard type.
C16_EmptyListDefaults ==
    \A u \in {v \in users : Cardinality(StandardTypes(DB, v)) = 1} :
    \A standard_type_id \in First(StandardTypes(DB, u)),
       default_cat \in First(DefaultCats(DB, u)) :
        /\ \A req \in CreateItemRequests(Client) :
                LET r == create_payment_item(DB, u, req, standard_type_id, default_cat)
                IN  (req.category_ids = <<>> /\ r.status = "OK") =>
                        DefaultAssigned(u, r.db, NextItemId(DB))
        /\ \A item_id \in DOMAIN items, req \in UpdateItemRequests(Client) :
                LET r == update_payment_item(DB, u, item_id, req, standard_type_id,
                                             default_cat)
                IN  ("category_ids" \in req.set /\ req.category_ids = <<>>
                        /\ r.status = "OK") =>
                        DefaultAssigned(u, r.db, item_id)

\* The links of a payment item.
LinksOf(db, item_id) == {l \in db.links : l[1] = item_id}

\* C17: an update request that does not carry category_ids leaves the links
\* of the payment item, and of every other, as they were, whatever else it
\* carries and however it ends.
C17_OmittedListKeepsLinks ==
    \A u \in users, item_id \in DOMAIN items, req \in UpdateItemRequests(Client) :
    \A standard_type_id \in First(StandardTypes(DB, u)),
       default_cat \in First(DefaultCats(DB, u)) :
        LET r == update_payment_item(DB, u, item_id, req, standard_type_id,
                                     default_cat)
        IN  "category_ids" \notin req.set =>
                /\ LinksOf(r.db, item_id) = LinksOf(DB, item_id)
                /\ r.db.links = links

\* A payment item has a tag, and a standard category that is none of its
\* tags: an update that carried standard_category_id and no tag list has
\* been applied to it.
C17_Witness ==
    \E item_id \in DOMAIN items :
        /\ LinksOf(DB, item_id) # {}
        /\ items[item_id].standard_category_id # Null
        /\ <<item_id, items[item_id].standard_category_id>> \notin links

\* C6: in every reachable state each payment item's recipient and linked
\* categories have the item's owner, and each category's type and parent
\* have the category's owner.
C6_NoCrossOwnerReference ==
    /\ \A item_id \in DOMAIN items :
        /\ HasRecipient(DB, items[item_id].recipient_id) =>
                recipients[items[item_id].recipient_id].user_id = items[item_id].user_id
        /\ \A c \in CategoriesOf(DB, item_id) :
                cats[c].user_id = items[item_id].user_id
    /\ \A c \in DOMAIN cats :
        /\ HasType(DB, cats[c].type_id) =>
                types[cats[c].type_id].user_id = cats[c].user_id
        /\ HasCat(DB, cats[c].parent_id) =>
                cats[cats[c].parent_id].user_id = cats[c].user_id

(***************************************************************************)
(* Naming: the operations that store a category or a recipient name.       *)
(***************************************************************************)
\* The names: "a b", the same with surrounding whitespace and a longer inner
\* run of whitespace, and "A b"; every new category is a root of the type
\* with id 1.
NamesClient ==
    PlainFiles @@
    [names |-> {<<"a", " ", "b">>, <<" ", "a", "\t", " ", "b">>, <<"A", " ", "b">>},
     addresses |-> {<<>>},
     type_ids |-> {1}, parent_ids |-> {Null},
     amounts |-> {1},
     category_keys |-> {{"name"}},
     recipient_keys |-> {{"name"}},
     max_rows |-> MaxRows,
     observe |-> FALSE,
     max_users |-> MaxUsers, max_types |-> MaxUsers, max_cats |-> MaxNameCats,
     max_recipients |-> MaxNameRecipients, max_items |-> MaxNameItems]

NextNames ==
    \/ Register(NamesClient)
    \/ CreateCategory(NamesClient)
    \/ UpdateCategory(NamesClient)
    \/ CreateRecipient(NamesClient)
    \/ UpdateRecipient(NamesClient)
    \/ ImportCsv(NamesClient)
    \/ DeletePaymentItem(NamesClient)

SpecNames == Init /\ [][NextNames]_vars

\* No two rows of the table that have the same owner have names that are
\* equal after _normalize_name.
NormalizedNamesUnique(table) ==
    \A i, j \in DOMAIN table :
        (i # j /\ table[i].user_id = table[j].user_id) =>
            _normalize_name(table[i].name) # _normalize_name(table[j].name)

\* Another row of the table, owned by u, has the name after normalization.
OtherRowNamed(table, u, id, name) ==
    \E other \in DOMAIN table \ {id} :
        /\ table[other].user_id = u
        /\ _normalize_name(table[other].name) = _normalize_name(name)

\* C5: after any sequence of registrations, category and recipient creations
\* and renamings and imports, no owner has two categories, and no owner has
\* two recipients, with names equal after normalization (case matters); and
\* a renaming is refused as a duplicate exactly when a row other than the
\* renamed one has the name.
C5_NormalizedNamesUnique ==
    /\ NormalizedNamesUnique(cats)
    /\ NormalizedNamesUnique(recipients)
    /\ \A name \in NamesClient.names :
        /\ \A id \in DOMAIN cats :
            update_category(DB, cats[id].user_id, id,
                [set |-> {"name"}, name |-> name, type_id |-> Null,
                 parent_id |-> Null]).status
              = IF OtherRowNamed(cats, cats[id].user_id, id, name)
                THEN "Conflict" ELSE "OK"
        /\ \A id \in DOMAIN recipients :
            update_recipient(DB, recipients[id].user_id, id,
                [set |-> {"name"}, name |-> name, address |-> <<>>]).status
              = IF OtherRowNamed(recipients, recipients[id].user_id, id, name)
                THEN "Conflict" ELSE "OK"

\* The admin has the categories "a b" and "A b", the second account has a
\* category "a b" of its own, the admin has the recipients "a b" and "A b",
\* and an import has stored a payment item.
C5_Witness ==
    /\ \E i, j, k \in DOMAIN cats :
        /\ cats[i].user_id = AdminId /\ cats[i].name = <<"a", " ", "b">>
        /\ cats[j].user_id = AdminId /\ cats[j].name = <<"A", " ", "b">>
        /\ cats[k].user_id # AdminId /\ cats[k].name = <<"a", " ", "b">>
    /\ \E i, j \in DOMAIN recipients :
        /\ recipients[i].user_id = AdminId /\ recipients[i].name = <<"a", " ", "b">>
        /\ recipients[j].user_id = AdminId /\ recipients[j].name = <<"A", " ", "b">>
    /\ items # <<>>

(***************************************************************************)
(* The taxonomy alone: accounts, category types and categories.            *)
(***************************************************************************)
TaxonomyClient ==
    [names |-> {<<"a">>, <<"b">>},
     type_names |-> {STANDARD, "method"},
     type_ids |-> Nat, parent_ids |-> Nat,
     category_keys |-> {{}, {"type_id"}, {"parent_id"}},
     observe |-> FALSE,
     max_users |-> MaxUsers, max_types |-> MaxTypes, max_cats |-> MaxCats,
     max_recipients |-> 0, max_items |-> 0]

NextTaxonomy ==
    \/ Register(TaxonomyClient)
    \/ CreateCategoryType(TaxonomyClient)
    \/ CreateCategory(TaxonomyClient)
    \/ UpdateCategory(TaxonomyClient)

SpecTaxonomy == Init /\ [][NextTaxonomy]_vars

\* The create_category requests of the taxonomy client in the current state.
TaxonomyCreateRequests ==
    [name : TaxonomyClient.names, type_id : IdsOf(types), parent_id : IdsOf(cats)]

\* C7: create_category with a parent_id ends with NotFound and stores nothing
\* unless the parent exists, has the type of the new category and belongs to
\* the caller.
C7_ParentChecked ==
    \A u \in users, req \in TaxonomyCreateRequests :
        LET r == create_category(DB, u, req)
            parent_fits == /\ HasCat(DB, req.parent_id)
                           /\ cats[req.parent_id].type_id = req.type_id
                           /\ cats[req.parent_id].user_id = u
        IN  ~parent_fits => (r.status = "NotFound" /\ r.db = DB)

\* C8: in every reachable state a category that has a parent has the type of
\* its parent.
C8_ParentHasSameType ==
    \A c \in DOMAIN cats :
        HasCat(DB, cats[c].parent_id) =>
            cats[cats[c].parent_id].type_id = cats[c].type_id

\* Following parent_id from category c reaches a root within the given steps.
RECURSIVE ReachesRoot(_, _)
ReachesRoot(c, steps) ==
    IF cats[c].parent_id = Null THEN TRUE
    ELSE IF steps = 0 \/ ~HasCat(DB, cats[c].parent_id) THEN FALSE
    ELSE ReachesRoot(cats[c].parent_id, steps - 1)

\* C9: in every reachable state the categories form a forest: the parent
\* chain of every category ends at a root, so no category is its own
\* ancestor.
C9_Forest ==
    \A c \in DOMAIN cats : ReachesRoot(c, Len(cats))

\* C10: in every reachable state every registered owner has exactly one type
\* named "standard".
C10_OneStandardType ==
    \A u \in users : Cardinality(StandardTypes(DB, u)) = 1

(***************************************************************************)
(* Tag assignment: the payment item requests over a provisioned taxonomy.  *)
(***************************************************************************)
\* The store after the second account is registered and the admin has added
\* a second category, "a", of its standard type.
ProvisionedDB ==
    create_category(register(InitialDB).db, AdminId,
        [name |-> <<"a">>, type_id |-> 1, parent_id |-> Null]).db

InitAssign ==
    /\ users = ProvisionedDB.users
    /\ types = ProvisionedDB.types
    /\ cats = ProvisionedDB.cats
    /\ recipients = ProvisionedDB.recipients
    /\ items = ProvisionedDB.items
    /\ links = ProvisionedDB.links
    /\ last = [op |-> "startup", status |-> "OK"]
    /\ inflight = NoCall
    /\ calls = {}

AssignClient ==
    [amounts |-> {1},
     item_keys |-> {{}, {"category_ids"}, {"recipient_id", "category_ids"}},
     max_tag_list |-> MaxTagList,
     observe |-> TRUE,
     max_users |-> Cardinality(ProvisionedDB.users),
     max_types |-> Len(ProvisionedDB.types),
     max_cats |-> Len(ProvisionedDB.cats),
     max_recipients |-> 0, max_items |-> MaxAssignItems]

NextAssign ==
    \/ CreatePaymentItem(AssignClient)
    \/ UpdatePaymentItem(AssignClient)
    \/ DeletePaymentItem(AssignClient)

SpecAssign == InitAssign /\ [][NextAssign]_vars

\* The requests of the tag assignment client in the current state.
AssignCreateRequests == CreateItemRequests(AssignClient)

AssignUpdateRequests == UpdateItemRequests(AssignClient)

\* The list names, at positions i < j, two categories that exist, belong to
\* u and have the same type.
SameTypePair(u, category_ids, i, j) ==
    /\ i < j
    /\ HasCat(DB, category_ids[i]) /\ HasCat(DB, category_ids[j])
    /\ cats[category_ids[i]].user_id = u /\ cats[category_ids[j]].user_id = u
    /\ cats[category_ids[i]].type_id = cats[category_ids[j]].type_id

HasSameTypePair(u, category_ids) ==
    \E i, j \in DOMAIN category_ids : SameTypePair(u, category_ids, i, j)

\* An id listed before the second category of the first same-type pair is
\* missing or belongs to someone else.
BadIdBeforePair(u, category_ids) ==
    LET second == CHOOSE j \in DOMAIN category_ids :
                      /\ \E i \in DOMAIN category_ids : SameTypePair(u, category_ids, i, j)
                      /\ \A k \in DOMAIN category_ids :
                            (\E i \in DOMAIN category_ids : SameTypePair(u, category_ids, i, k))
                                => j <= k
    IN  \E p \in 1 .. (second - 1) :
            ~HasCat(DB, category_ids[p]) \/ cats[category_ids[p]].user_id # u

RecipientUsable(u, recipient_id) ==
    recipient_id = Null
        \/ (HasRecipient(DB, recipient_id) /\ recipients[recipient_id].user_id = u)

ImportDB ==
    create_recipient(ProvisionedDB, 2, [name |-> <<"a">>, address |-> <<"x">>]).db

InitImport ==
    /\ users = ImportDB.users
    /\ types = ImportDB.types
    /\ cats = ImportDB.cats
    /\ recipients = ImportDB.recipients
    /\ items = ImportDB.items
    /\ links = ImportDB.links
    /\ last = [op |-> "startup", status |-> "OK"]
    /\ inflight = NoCall
    /\ calls = {}

GoodHeader == [i \in DOMAIN CSV_HEADER_FIELDS |-> <<CSV_HEADER_FIELDS[i]>>]

GoodDate == <<"2", "0", "2", "4", "-", "0", "2", "-", "2", "9">>

\* A row that names neither a recipient nor a category.
BareRow(amount, date, description, periodic) ==
    <<amount, date, description, <<>>, <<>>, <<>>, periodic>>

\* Rows that the parse loop skips.
BlankRows == {<<<<" ">>, <<>>>>}

\* Rows that it accepts: the recipient "a" at the address "x" with the
\* category "a"; the recipient " a " with no address and no category, a
\* description of the greatest length, and other spellings of the amount and
\* of the flag.
AcceptedRows ==
    {<<<<"0", ".", "1">>, GoodDate, <<>>, <<"a">>, <<"x">>, <<"a">>, <<"false">>>>,
     <<<<"0", ".", "1", "0">>, GoodDate, [i \in 1 .. MAX_DESCRIPTION_LENGTH |-> "d"],
       <<" ", "a", " ">>, <<>>, <<>>, <<" ", "TRUE">>>>}

\* Rows that it refuses.
RefusedRows ==
    {\* six cells
     <<<<"1">>, GoodDate, <<>>, <<>>, <<>>, <<"false">>>>,
     \* the amount
     BareRow(<<"1", ".">>, GoodDate, <<>>, <<"false">>),
     \* the date: not of the pattern, not in the calendar
     BareRow(<<"1">>, <<"2", "4", "-", "0", "2", "-", "2", "9">>, <<>>, <<"false">>),
     BareRow(<<"1">>, <<"2", "0", "2", "3", "-", "0", "2", "-", "2", "9">>, <<>>, <<"false">>),
     \* the periodic flag
     BareRow(<<"1">>, GoodDate, <<>>, <<"yes">>),
     \* an over-long field
     <<<<"1">>, GoodDate, <<>>, [i \in 1 .. MAX_RECIPIENT_NAME_LENGTH + 1 |-> "r"],
       <<>>, <<>>, <<"false">>>>}

\* Files that have no header, or not the header of the export, and a file
\* whose header cells are padded.
OtherFiles ==
    {<<>>,
     <<<<<<"amount">>, <<"date">>>>>>,
     <<[GoodHeader EXCEPT ![1] = <<"Amount">>],
       <<<<"0", ".", "1">>, GoodDate, <<>>, <<"a">>, <<>>, <<"a">>, <<"false">>>>>>,
     <<[GoodHeader EXCEPT ![1] = <<" ", "amount">>],
       BareRow(<<"0", ".", "1">>, GoodDate, <<>>, <<"false">>)>>}

\* Files under the good header with one refused row: alone, before a good
\* row, after one, and between two.
RefusedFiles ==
    LET good == <<<<"0", ".", "1">>, GoodDate, <<>>, <<"a">>, <<>>, <<"a">>, <<"false">>>>
    IN  {<<GoodHeader>> \o before \o <<refused>> \o after :
            refused \in RefusedRows,
            before \in {<<>>, <<good>>}, after \in {<<>>, <<good>>}}

\* The client writes the bare row, the blank row and the accepted rows in
\* any order, and the files above.
ImportClient ==
    [names |-> {},
     addresses |-> {<<>>},
     headers |-> {GoodHeader},
     amount_cells |-> {<<"0", ".", "1">>},
     date_cells |-> {GoodDate},
     descriptions |-> {<<>>},
     periodic_cells |-> {<<"false">>},
     other_rows |-> BlankRows \cup AcceptedRows,
     other_files |-> OtherFiles \cup RefusedFiles,
     max_rows |-> MaxImportRows,
     observe |-> TRUE,
     max_users |-> Cardinality(ImportDB.users),
     max_types |-> Len(ImportDB.types),
     max_cats |-> Len(ImportDB.cats) + 1,
     max_recipients |-> Len(ImportDB.recipients) + 1,
     max_items |-> MaxImportItems]

NextImport ==
    \/ ImportCsv(ImportClient)
    \/ DeletePaymentItem(ImportClient)

SpecImport == InitImport /\ [][NextImport]_vars

\* The header is missing or is not the export's, or a data row that is not
\* blank fails a check.
FileRefused(lines) ==
    \/ lines = <<>>
    \/ ~HeaderMatches(Head(lines))
    \/ \E i \in 2 .. Len(lines) : ~IsBlank(lines[i]) /\ ~RowValid(lines[i])

\* C11: an import whose header or whose data row, anywhere in the file,
\* fails validation ends with Validation and leaves the store as it was.
C11_RefusedFileWritesNothing ==
    \A u \in users, lines \in ImportFiles(ImportClient) :
        FileRefused(lines) =>
            \A standard_type_id \in First(StandardTypes(DB, u)),
               default_category \in First(DefaultCats(DB, u)),
               category_order \in Orders(CategoryNames(ParsedRows(lines))) :
                LET r == import_csv(DB, u, lines, category_order,
                                    standard_type_id, default_category)
                IN  r.status = "Validation" /\ r.db = DB

\* An import has just been refused by a store that holds recipients,
\* categories and a payment item.
C11_Witness ==
    /\ last = [op |-> "import_csv", status |-> "Validation"]
    /\ recipients # <<>> /\ items # <<>>

\* The normalized names that the cells of column k of the file's data rows
\* spell.
NamesInColumn(lines, k) ==
    {_normalize_name(Strip(lines[i][k])) :
        i \in {j \in 2 .. Len(lines) : ~IsBlank(lines[j])}} \ {<<>>}

\* The normalized names of the rows of u in a table.
NamesOwned(table, u) ==
    {_normalize_name(table[id].name) : id \in {j \in DOMAIN table : table[j].user_id = u}}

\* The rows of the table that are not what they were in the store.
Changed(table, before) == {id \in DOMAIN before : table[id] # before[id]}

\* C18: the counts of a successful import are its effect.  created_payments
\* is the number of rows that are not blank and of payment items added;
\* created_recipients and created_categories are the numbers of distinct
\* normalized names in the file that no recipient, or category, of the
\* caller has, and of rows added to the tables, all of the caller;
\* updated_recipients is the number of recipients that changed, all of the
\* caller and in the address only.  Nothing else is added or changed.
C18_CountsAreEffects ==
    \A u \in users, lines \in ImportFiles(ImportClient) :
    \A standard_type_id \in First(StandardTypes(DB, u)),
       default_category \in First(DefaultCats(DB, u)),
       category_order \in Orders(CategoryNames(ParsedRows(lines))) :
        LET r == import_csv(DB, u, lines, category_order, standard_type_id,
                            default_category)
            new_items == DOMAIN r.db.items \ DOMAIN items
            new_recipients == DOMAIN r.db.recipients \ DOMAIN recipients
            new_cats == DOMAIN r.db.cats \ DOMAIN cats
            blank == {i \in 2 .. Len(lines) : IsBlank(lines[i])}
        IN  r.status = "OK" =>
            /\ r.created_payments = Len(lines) - 1 - Cardinality(blank)
            /\ r.created_payments = Cardinality(new_items)
            /\ \A i \in DOMAIN items : r.db.items[i] = items[i]
            /\ \A i \in new_items : r.db.items[i].user_id = u
            /\ r.created_recipients =
                    Cardinality(NamesInColumn(lines, 4) \ NamesOwned(recipients, u))
            /\ r.created_recipients = Cardinality(new_recipients)
            /\ \A id \in new_recipients : r.db.recipients[id].user_id = u
            /\ r.created_categories =
                    Cardinality(NamesInColumn(lines, 6) \ NamesOwned(cats, u))
            /\ r.created_categories = Cardinality(new_cats)
            /\ \A id \in new_cats : r.db.cats[id].user_id = u
            /\ Changed(r.db.cats, cats) = {}
            /\ r.updated_recipients = Cardinality(Changed(r.db.recipients, recipients))
            /\ \A id \in Changed(r.db.recipients, recipients) :
                    /\ recipients[id].user_id = u
                    /\ r.db.recipients[id] =
                            [recipients[id] EXCEPT !.address = r.db.recipients[id].address]
            /\ r.db.users = users /\ r.db.types = types
            /\ links \subseteq r.db.links
            /\ \A l \in r.db.links \ links : l[1] \in new_items

\* An import has just succeeded that added a recipient and a category and
\* changed the address of a recipient.
C18_Witness ==
    /\ last = [op |-> "import_csv", status |-> "OK"]
    /\ Len(recipients) > Len(ImportDB.recipients)
    /\ Len(cats) > Len(ImportDB.cats)
    /\ Changed(recipients, ImportDB.recipients) # {}
    /\ items # <<>>

\* C19: when an import has succeeded, the import of the same file by the
\* same caller right after it succeeds too, reports no created recipient,
\* no updated recipient and no created category, leaves the recipients and
\* the categories as they are, and adds one payment item for every row that
\* is not blank.
C19_SecondImportAddsItemsOnly ==
    \A u \in users, lines \in ImportFiles(ImportClient) :
    \A standard_type_id \in First(StandardTypes(DB, u)),
       default_category \in First(DefaultCats(DB, u)),
       category_order \in Orders(CategoryNames(ParsedRows(lines))) :
        LET once == import_csv(DB, u, lines, category_order, standard_type_id,
                               default_category)
        IN  once.status = "OK" =>
            \A second_type_id \in First(StandardTypes(once.db, u)),
               second_category \in First(DefaultCats(once.db, u)),
               second_order \in Orders(CategoryNames(ParsedRows(lines))) :
                LET twice == import_csv(once.db, u, lines, second_order,
                                        second_type_id, second_category)
                IN  /\ twice.status = "OK"
                    /\ twice.created_recipients = 0
                    /\ twice.updated_recipients = 0
                    /\ twice.created_categories = 0
                    /\ twice.db.recipients = once.db.recipients
                    /\ twice.db.cats = once.db.cats
                    /\ twice.created_payments = once.created_payments
                    /\ Cardinality(DOMAIN twice.db.items \ DOMAIN once.db.items)
                            = once.created_payments

\* An import of one row that added a recipient and a category has just
\* succeeded, and the store has room for the row once more.
C19_Witness ==
    /\ last = [op |-> "import_csv", status |-> "OK"]
    /\ Len(recipients) > Len(ImportDB.recipients)
    /\ Len(cats) > Len(ImportDB.cats)
    /\ Cardinality(DOMAIN items) = 1 /\ NextItemId(DB) <= MaxImportItems

(***************************************************************************)
(* Failures: every endpoint under a client that keeps the last response.   *)
(***************************************************************************)
\* The client of Spec with fewer kinds of update; an update of a payment
\* item carries its recipient or its tag list.
FailureClient ==
    [Client EXCEPT
        !.addresses = {<<"x">>},
        !.category_keys = {{"type_id"}},
        !.recipient_keys = {{"name"}},
        !.item_keys = {{"recipient_id"}, {"category_ids"}, {"user_id"}},
        !.observe = TRUE]

NextFailures ==
    \/ Register(FailureClient)
    \/ CreateCategoryType(FailureClient)
    \/ CreateCategory(FailureClient)
    \/ UpdateCategory(FailureClient)
    \/ CreateRecipient(FailureClient)
    \/ UpdateRecipient(FailureClient)
    \/ CreatePaymentItem(FailureClient)
    \/ UpdatePaymentItem(FailureClient)
    \/ DeletePaymentItem(FailureClient)
    \/ ImportCsv(FailureClient)

SpecFailures == Init /\ [][NextFailures]_vars

\* The response is a refusal and the store with it is the one before the
\* call, or the response is no refusal.
Unchanged(r) ==
    r.status \in {"NotFound", "Forbidden", "Conflict", "Validation"} => r.db = DB

\* C12: every request, to any endpoint, that ends with NotFound, Forbidden,
\* Conflict or Validation leaves every table of the store as it was before
\* the call.
C12_RefusalWritesNothing ==
    LET c == FailureClient IN
    /\ Unchanged(register(DB))
    /\ \A u \in users :
        /\ \A name \in c.type_names : Unchanged(create_category_type(DB, u, name))
        /\ \A name \in c.names, type_id \in IdsOf(types),
              parent_id \in {Null} \cup IdsOf(cats) :
                Unchanged(create_category(DB, u, [name |-> name, type_id |-> type_id,
                                                  parent_id |-> parent_id]))
        /\ \A category_id \in IdsOf(cats), keys \in c.category_keys :
           \A name \in Carried("name", keys, c.names, <<>>),
              type_id \in Carried("type_id", keys, {Null} \cup IdsOf(types), Null),
              parent_id \in Carried("parent_id", keys, {Null} \cup IdsOf(cats), Null) :
                Unchanged(update_category(DB, u, category_id,
                            [set |-> keys, name |-> name, type_id |-> type_id,
                             parent_id |-> parent_id]))
        /\ \A name \in c.names, address \in c.addresses :
                Unchanged(create_recipient(DB, u, [name |-> name, address |-> address]))
        /\ \A recipient_id \in IdsOf(recipients), keys \in c.recipient_keys :
           \A name \in Carried("name", keys, c.names, <<>>),
              address \in Carried("address", keys, c.addresses, <<>>) :
                Unchanged(update_recipient(DB, u, recipient_id,
                            [set |-> keys, name |-> name, address |-> address]))
        /\ \A standard_type_id \in First(StandardTypes(DB, u)),
              default_cat \in First(DefaultCats(DB, u)) :
            /\ \A req \in CreateItemRequests(c) :
                    Unchanged(create_payment_item(DB, u, req, standard_type_id,
                                                  default_cat))
            /\ \A item_id \in ItemIds, req \in UpdateItemRequests(c) :
                    Unchanged(update_payment_item(DB, u, item_id, req,
                                                  standard_type_id, default_cat))
            /\ \A lines \in ImportFiles(c) :
               \A category_order \in Orders(CategoryNames(ParsedRows(lines))) :
                    Unchanged(import_csv(DB, u, lines, category_order,
                                         standard_type_id, default_cat))
        /\ \A item_id \in ItemIds : Unchanged(delete_payment_item(DB, u, item_id))

\* An update has just been refused for the recipient or the tag that its
\* request names, and the store holds a payment item with a recipient and a
\* tag.
C12_Witness ==
    /\ last.op = "update_payment_item" /\ last.status \in {"NotFound", "Forbidden"}
    /\ \E item_id \in DOMAIN items :
        /\ items[item_id].recipient_id # Null
        /\ CategoriesOf(DB, item_id) # {}

(***************************************************************************)
(* Commits: create_payment_item and delete_payment_item commit twice.  A   *)
(* request that has made its first commit is in flight; the store is what  *)
(* any other request reads meanwhile.                                      *)
(***************************************************************************)
\* session.commit(): the store becomes db.
Commit(db, c) ==
    /\ Fits(db, c)
    /\ users' = db.users
    /\ types' = db.types
    /\ cats' = db.cats
    /\ recipients' = db.recipients
    /\ items' = db.items
    /\ links' = db.links

\* A refused request, and a create request with nothing to link, has no
\* second commit; any other makes its first commit and is in flight.
BeginCreatePaymentItem(c) ==
    /\ inflight = NoCall
    /\ \E u \in users, req \in CreateItemRequests(c) :
       \E standard_type_id \in First(StandardTypes(DB, u)),
          default_cat \in First(DefaultCats(DB, u)) :
            LET r == create_payment_item_add(DB, u, req, standard_type_id, default_cat)
                category_ids == AssignedCategories(req.category_ids, default_cat)
            IN  IF r.status # "OK" \/ category_ids = <<>>
                THEN Respond("create_payment_item", r, c)
                ELSE /\ Commit(r.db, c)
                     /\ inflight' = [op |-> "create_payment_item",
                                     item_id |-> NextItemId(DB),
                                     linked |-> Range(category_ids)]
                     /\ last' = last
                     /\ calls' = calls

FinishCreatePaymentItem(c) ==
    /\ inflight.op = "create_payment_item"
    /\ Commit(create_payment_item_link(DB, inflight.item_id,
                    CHOOSE category_ids \in Orders(inflight.linked) : TRUE).db, c)
    /\ inflight' = NoCall
    /\ calls' = calls
    /\ last' = [op |-> "create_payment_item", status |-> "OK"]

BeginDeletePaymentItem(c) ==
    /\ inflight = NoCall
    /\ \E u \in users, item_id \in ItemIds :
            LET r == delete_payment_item_links(DB, u, item_id)
            IN  IF r.status # "OK"
                THEN Respond("delete_payment_item", r, c)
                ELSE /\ Commit(r.db, c)
                     /\ inflight' = [op |-> "delete_payment_item",
                                     item_id |-> item_id,
                                     linked |-> CategoriesOf(DB, item_id)]
                     /\ last' = last
                     /\ calls' = calls

FinishDeletePaymentItem(c) ==
    /\ inflight.op = "delete_payment_item"
    /\ Commit(delete_payment_item_item(DB, inflight.item_id).db, c)
    /\ inflight' = NoCall
    /\ calls' = calls
    /\ last' = [op |-> "delete_payment_item", status |-> "OK"]

NextCommits ==
    \/ BeginCreatePaymentItem(AssignClient)
    \/ FinishCreatePaymentItem(AssignClient)
    \/ BeginDeletePaymentItem(AssignClient)
    \/ FinishDeletePaymentItem(AssignClient)

SpecCommits == InitAssign /\ [][NextCommits]_vars

\* C13: the store that other requests read never holds an intermediate
\* state of a request in flight: a payment item that create_payment_item
\* has added, or that delete_payment_item is about to remove, is in the
\* store with the tag links of the whole call (those the create assigns,
\* those the item had when the delete began) or not at all.
C13_NoIntermediateState ==
    (inflight # NoCall /\ HasItem(DB, inflight.item_id)) =>
        CategoriesOf(DB, inflight.item_id) = inflight.linked

(***************************************************************************)
(* Queries: payment items are created and deleted, and listed, over a      *)
(* taxonomy that does not change.                                          *)
(***************************************************************************)
\* The store after the admin has added "b" under "a" (category 3) and "c"
\* under "b", and the second account has added "e" under the admin's "a".
\* The admin's UNCLASSIFIED is a root beside "a".
TreeDB ==
    LET b == create_category(ProvisionedDB, AdminId,
                [name |-> <<"b">>, type_id |-> 1, parent_id |-> 3]).db
        c == create_category(b, AdminId,
                [name |-> <<"c">>, type_id |-> 1, parent_id |-> 4]).db
    IN  create_category(c, 2, [name |-> <<"e">>, type_id |-> 2, parent_id |-> 3]).db

\* The store after the admin has then made "c" the parent of "a".
CycleDB ==
    update_category(TreeDB, AdminId, 3,
        [set |-> {"parent_id"}, name |-> <<>>, type_id |-> Null, parent_id |-> 5]).db

InitList ==
    /\ \E db \in {TreeDB, CycleDB} :
        /\ users = db.users
        /\ types = db.types
        /\ cats = db.cats
        /\ recipients = db.recipients
        /\ items = db.items
        /\ links = db.links
    /\ last = [op |-> "startup", status |-> "OK"]
    /\ inflight = NoCall
    /\ calls = {}

ListClient ==
    [amounts |-> {0 - 1, 0, 1},
     max_tag_list |-> MaxListTags,
     max_filter |-> MaxFilter,
     observe |-> TRUE,
     max_users |-> Cardinality(TreeDB.users),
     max_types |-> Len(TreeDB.types),
     max_cats |-> Len(TreeDB.cats),
     max_recipients |-> 0, max_items |-> MaxListItems]

\* The tag filters of a query: no filter, or a list of ids.
Filters(c) == ListsUpTo(IdsOf(cats), c.max_filter)

ListPaymentItems(c) ==
    \E u \in users, expense_only \in BOOLEAN, income_only \in BOOLEAN,
       category_ids \in Filters(c) :
        Respond("list_payment_items",
                list_payment_items(DB, u, expense_only, income_only, category_ids), c)

ListCategoryDescendants(c) ==
    \E u \in users, category_id \in IdsOf(cats) :
        Respond("list_category_descendants",
                list_category_descendants(DB, u, category_id), c)

NextList ==
    \/ CreatePaymentItem(ListClient)
    \/ DeletePaymentItem(ListClient)
    \/ ListPaymentItems(ListClient)
    \/ ListCategoryDescendants(ListClient)

SpecList == InitList /\ [][NextList]_vars

\* C14: the rows that list_category_descendants and list_payment_items
\* return belong to the caller, whatever the category and the filter.
C14_OnlyOwnRows ==
    \A u \in users :
        /\ \A category_id \in IdsOf(cats) :
                LET r == list_category_descendants(DB, u, category_id)
                IN  \A i \in DOMAIN r.results : cats[r.results[i]].user_id = u
        /\ \A expense_only \in BOOLEAN, income_only \in BOOLEAN,
              category_ids \in Filters(ListClient) :
                LET r == list_payment_items(DB, u, expense_only, income_only,
                                            category_ids)
                IN  \A i \in DOMAIN r.results : items[r.results[i]].user_id = u

\* The ids of S and of every category from which parent_id leads, in one
\* step or more, to an id of S.
RECURSIVE Closure(_)
Closure(S) ==
    LET next == S \cup {c \in DOMAIN cats : cats[c].parent_id \in S}
    IN  IF next = S THEN S ELSE Closure(next)

\* The result of the caller's query with the tag filter alone.
Filtered(u, category_ids) ==
    Range(list_payment_items(DB, u, FALSE, FALSE, category_ids).results)

\* C15: a query with a tag filter that is not empty returns exactly the
\* caller's payment items that are linked to a category of the filter or to
\* a descendant of one.
C15_FilterIsClosure ==
    \A u \in users, category_ids \in Filters(ListClient) \ {<<>>} :
        /\ list_payment_items(DB, u, FALSE, FALSE, category_ids).status = "OK"
        /\ Filtered(u, category_ids) =
                {i \in DOMAIN items :
                    /\ items[i].user_id = u
                    /\ \E c \in Closure(Range(category_ids)) : <<i, c>> \in links}

\* A query has just been answered; the store holds two payment items of one
\* user, and a filter of one category returns the first, whose only tag is
\* neither that category nor a child of it, and does not return the second.
C15_Witness ==
    /\ last = [op |-> "list_payment_items", status |-> "OK"]
    /\ \E u \in users, f \in DOMAIN cats, i \in DOMAIN items, j \in DOMAIN items :
        /\ items[i].user_id = u /\ items[j].user_id = u
        /\ i \in Filtered(u, <<f>>) /\ j \notin Filtered(u, <<f>>)
        /\ CategoriesOf(DB, j) # {}
        /\ \A c \in CategoriesOf(DB, i) : c # f /\ cats[c].parent_id # f

\* C20: a query with both expense_only and income_only is refused with
\* Validation; with expense_only alone it returns the rows of the query
\* without the flag whose amount is negative, with income_only alone those
\* whose amount is positive.
C20_AmountFlags ==
    \A u \in users, category_ids \in Filters(ListClient) :
        LET all == Range(list_payment_items(DB, u, FALSE, FALSE, category_ids).results)
            both == list_payment_items(DB, u, TRUE, TRUE, category_ids)
            expenses == list_payment_items(DB, u, TRUE, FALSE, category_ids)
            incomes == list_payment_items(DB, u, FALSE, TRUE, category_ids)
        IN  /\ both.status = "Validation" /\ both.results = <<>>
            /\ expenses.status = "OK"
            /\ Range(expenses.results) = {i \in all : items[i].amount < 0}
            /\ incomes.status = "OK"
            /\ Range(incomes.results) = {i \in all : items[i].amount > 0}

\* A query with both flags has just been refused, and the caller of a query
\* can have a payment item of amount zero beside one of another amount.
C20_Witness ==
    /\ last = [op |-> "list_payment_items", status |-> "Validation"]
    /\ \E i \in DOMAIN items, j \in DOMAIN items :
        /\ items[i].user_id = items[j].user_id
        /\ items[i].amount = 0 /\ items[j].amount # 0

(***************************************************************************)
(* Termination of list_category_descendants over the taxonomies that the   *)
(* category endpoints produce.                                             *)
(***************************************************************************)
\* C22: in every reachable state list_category_descendants returns, for
\* every caller and every category: its loop ends.
C22_DescendantsReturn ==
    \A u \in users, category_id \in IdsOf(cats) :
        list_category_descendants(DB, u, category_id).status # "NoResponse"

(***************************************************************************)
(* Import: a recipient that several rows of one file name.                 *)
(***************************************************************************)
\* The rows of the file, blank rows aside, whose recipient cell spells the
\* normalized name.
RowsNaming(lines, name) ==
    {i \in 2 .. Len(lines) :
        ~IsBlank(lines[i]) /\ _normalize_name(Strip(lines[i][4])) = name}

\* The recipients of u with the normalized name.
RecipientsNamed(table, u, name) ==
    {id \in DOMAIN table :
        table[id].user_id = u /\ _normalize_name(table[id].name) = name}

\* C25: after a successful import, for every normalized recipient name of
\* the file, the address of the caller's recipient of that name is the
\* address cell, stripped, of the last row that names it (no address if the
\* cell is empty); the import adds at most one recipient of that name, and
\* none if the caller had one; and the created and updated counts together
\* count each name at most once.
C25_LastRowAddressWins ==
    \A u \in users, lines \in ImportFiles(ImportClient) :
    \A standard_type_id \in First(StandardTypes(DB, u)),
       default_category \in First(DefaultCats(DB, u)),
       category_order \in Orders(CategoryNames(ParsedRows(lines))) :
        LET r == import_csv(DB, u, lines, category_order, standard_type_id,
                            default_category)
            names == NamesInColumn(lines, 4)
        IN  r.status = "OK" =>
            /\ \A name \in names :
                LET before == RecipientsNamed(recipients, u, name)
                    after == RecipientsNamed(r.db.recipients, u, name)
                    last_row == Max(RowsNaming(lines, name))
                IN  /\ after # {}
                    /\ r.db.recipients[Max(after)].address = Strip(lines[last_row][5])
                    /\ before \subseteq after
                    /\ Cardinality(after \ before) <= 1
                    /\ before # {} => after = before
            /\ r.created_recipients + r.updated_recipients <= Cardinality(names)

\* The store is that of an import, into the first store, of a file with two
\* rows that name one recipient with different addresses, and that import
\* has just succeeded.
C25_Witness ==
    /\ last = [op |-> "import_csv", status |-> "OK"]
    /\ \E u \in users, lines \in ImportFiles(ImportClient) :
       \E standard_type_id \in First(StandardTypes(ImportDB, u)),
          default_category \in First(DefaultCats(ImportDB, u)),
          category_order \in Orders(CategoryNames(ParsedRows(lines))) :
        /\ LET r == import_csv(ImportDB, u, lines, category_order,
                               standard_type_id, default_category)
           IN  r.status = "OK" /\ r.db = DB
        /\ \E name \in NamesInColumn(lines, 4) :
            \E i, j \in RowsNaming(lines, name) :
                i < j /\ Strip(lines[i][5]) # Strip(lines[j][5])

(***************************************************************************)
(* Import: the categories that an import adds.                             *)
(***************************************************************************)
\* C26: every category that a successful import adds is owned by the
\* caller, is of a type named "standard" that the caller owns, has no
\* parent, and has a normalized name that a category cell of the file
\* spells and that no category of the caller had; the categories that were
\* in the store are unchanged.
C26_ImportedCategories ==
    \A u \in users, lines \in ImportFiles(ImportClient) :
    \A standard_type_id \in First(StandardTypes(DB, u)),
       default_category \in First(DefaultCats(DB, u)),
       category_order \in Orders(CategoryNames(ParsedRows(lines))) :
        LET r == import_csv(DB, u, lines, category_order, standard_type_id,
                            default_category)
        IN  r.status = "OK" =>
            /\ \A id \in DOMAIN r.db.cats \ DOMAIN cats :
                LET category == r.db.cats[id]
                IN  /\ category.user_id = u
                    /\ category.type_id \in DOMAIN types
                    /\ types[category.type_id].name = STANDARD
                    /\ types[category.type_id].user_id = u
                    /\ category.parent_id = Null
                    /\ category.name = _normalize_name(category.name)
                    /\ category.name \in NamesInColumn(lines, 6)
                    /\ category.name \notin NamesOwned(cats, u)
            /\ \A id \in DOMAIN cats : r.db.cats[id] = cats[id]

\* An import of the second account has just succeeded and has added a
\* category to the store, whose name the admin's category has too.
C26_Witness ==
    /\ last = [op |-> "import_csv", status |-> "OK"]
    /\ \E id \in DOMAIN cats \ DOMAIN ImportDB.cats :
        /\ cats[id].user_id = 2
        /\ \E other \in DOMAIN ImportDB.cats :
            cats[other].user_id = AdminId /\ cats[other].name = cats[id].name

(***************************************************************************)
(* Updates of a payment item that carry a tag list.                        *)
(***************************************************************************)
\* C24: when an update that carries a tag list that is not empty succeeds,
\* the links of the payment item are those to the ids of the list and no
\* other, and the links of every other payment item are as before.
C24_ListReplacesLinks ==
    \A u \in users, item_id \in DOMAIN items,
       req \in UpdateItemRequests(FailureClient) :
    \A standard_type_id \in First(StandardTypes(DB, u)),
       default_cat \in First(DefaultCats(DB, u)) :
        LET r == update_payment_item(DB, u, item_id, req, standard_type_id,
                                     default_cat)
        IN  "category_ids" \in req.set /\ req.category_ids # <<>> /\ r.status = "OK" =>
                /\ LinksOf(r.db, item_id) =
                        {<<item_id, c>> : c \in Range(req.category_ids)}
                /\ r.db.links \ LinksOf(r.db, item_id) = links \ LinksOf(DB, item_id)

\* An update of a payment item has just succeeded, and the item has two
\* tags: one of each type.
C24_Witness ==
    /\ last = [op |-> "update_payment_item", status |-> "OK"]
    /\ \E item_id \in DOMAIN items : Cardinality(LinksOf(DB, item_id)) = 2

(***************************************************************************)
(* Ownership: what a request of one user does to the rows of the others.   *)
(***************************************************************************)
\* The rows of a table that u does not own.
RowsOfOthers(table, u) == {id \in DOMAIN table : table[id].user_id # u}

\* The result r of a request of u keeps every row that u does not own, and
\* the links of every payment item that u does not own, as they are in the
\* store, and keeps the owner of every row that stays in the store.
Framed(r, u) ==
    /\ \A id \in RowsOfOthers(types, u) :
            id \in DOMAIN r.db.types /\ r.db.types[id] = types[id]
    /\ \A id \in RowsOfOthers(cats, u) :
            id \in DOMAIN r.db.cats /\ r.db.cats[id] = cats[id]
    /\ \A id \in RowsOfOthers(recipients, u) :
            id \in DOMAIN r.db.recipients /\ r.db.recipients[id] = recipients[id]
    /\ \A id \in RowsOfOthers(items, u) :
            /\ id \in DOMAIN r.db.items /\ r.db.items[id] = items[id]
            /\ LinksOf(r.db, id) = LinksOf(DB, id)
    /\ \A id \in DOMAIN types \cap DOMAIN r.db.types :
            r.db.types[id].user_id = types[id].user_id
    /\ \A id \in DOMAIN cats \cap DOMAIN r.db.cats :
            r.db.cats[id].user_id = cats[id].user_id
    /\ \A id \in DOMAIN recipients \cap DOMAIN r.db.recipients :
            r.db.recipients[id].user_id = recipients[id].user_id
    /\ \A id \in DOMAIN items \cap DOMAIN r.db.items :
            r.db.items[id].user_id = items[id].user_id
    /\ users \subseteq r.db.users

\* C30: every request of a user u to an endpoint that writes, however it
\* ends, leaves the types, categories, recipients and payment items of the
\* other users, and the links of their payment items, as they were, and
\* leaves the owner of every row as it was; an update of a payment item
\* that carries user_id does not give the item to that user.
C30_OtherOwnersUntouched ==
    LET c == FailureClient IN
    \A u \in users :
        /\ \A name \in c.type_names : Framed(create_category_type(DB, u, name), u)
        /\ \A name \in c.names, type_id \in IdsOf(types),
              parent_id \in {Null} \cup IdsOf(cats) :
                Framed(create_category(DB, u, [name |-> name, type_id |-> type_id,
                                               parent_id |-> parent_id]), u)
        /\ \A category_id \in IdsOf(cats), keys \in c.category_keys :
           \A name \in Carried("name", keys, c.names, <<>>),
              type_id \in Carried("type_id", keys, {Null} \cup IdsOf(types), Null),
              parent_id \in Carried("parent_id", keys, {Null} \cup IdsOf(cats), Null) :
                Framed(update_category(DB, u, category_id,
                            [set |-> keys, name |-> name, type_id |-> type_id,
                             parent_id |-> parent_id]), u)
        /\ \A name \in c.names, address \in c.addresses :
                Framed(create_recipient(DB, u, [name |-> name, address |-> address]), u)
        /\ \A recipient_id \in IdsOf(recipients), keys \in c.recipient_keys :
           \A name \in Carried("name", keys, c.names, <<>>),
              address \in Carried("address", keys, c.addresses, <<>>) :
                Framed(update_recipient(DB, u, recipient_id,
                            [set |-> keys, name |-> name, address |-> address]), u)
        /\ \A standard_type_id \in First(StandardTypes(DB, u)),
              default_cat \in First(DefaultCats(DB, u)) :
            /\ \A req \in CreateItemRequests(c) :
                    Framed(create_payment_item(DB, u, req, standard_type_id,
                                               default_cat), u)
            /\ \A item_id \in ItemIds, req \in UpdateItemRequests(c) :
                    Framed(update_payment_item(DB, u, item_id, req,
                                               standard_type_id, default_cat), u)
            /\ \A lines \in ImportFiles(c) :
               \A category_order \in Orders(CategoryNames(ParsedRows(lines))) :
                    Framed(import_csv(DB, u, lines, category_order,
                                      standard_type_id, default_cat), u)
        /\ \A item_id \in ItemIds : Framed(delete_payment_item(DB, u, item_id), u)

\* An update of a payment item has just succeeded, while another user than
\* the owner of the item is registered and has a category and a recipient.
C30_Witness ==
    /\ last = [op |-> "update_payment_item", status |-> "OK"]
    /\ \E item_id \in DOMAIN items, other \in users :
        /\ other # items[item_id].user_id
        /\ RowsOfOthers(cats, items[item_id].user_id) # {}
        /\ \E id \in DOMAIN recipients : recipients[id].user_id = other

(***************************************************************************)
(* Expansion of a tag filter over every parent relation that the category  *)
(* endpoints produce.                                                      *)
(***************************************************************************)
\* The store after the admin has added "b" under "a".
ExpandDB ==
    create_category(ProvisionedDB, AdminId,
        [name |-> <<"b">>, type_id |-> 1, parent_id |-> 3]).db

InitExpand ==
    /\ users = ExpandDB.users
    /\ types = ExpandDB.types
    /\ cats = ExpandDB.cats
    /\ recipients = ExpandDB.recipients
    /\ items = ExpandDB.items
    /\ links = ExpandDB.links
    /\ last = [op |-> "startup", status |-> "OK"]
    /\ inflight = NoCall
    /\ calls = {}

\* The client moves categories under any category, itself included, and
\* queries with filters of up to MaxExpandFilter ids.
ExpandClient ==
    [names |-> {},
     type_ids |-> Nat, parent_ids |-> Nat,
     category_keys |-> {{"parent_id"}},
     max_filter |-> MaxExpandFilter,
     observe |-> TRUE,
     max_users |-> Cardinality(ExpandDB.users),
     max_types |-> Len(ExpandDB.types),
     max_cats |-> Len(ExpandDB.cats),
     max_recipients |-> 0, max_items |-> 0]

NextExpand ==
    \/ UpdateCategory(ExpandClient)
    \/ ListPaymentItems(ExpandClient)

SpecExpand == InitExpand /\ [][NextExpand]_vars

\* expanded_ids after the loop over the filter.
Expand(category_ids) == GatherAll(DB, category_ids, Range(category_ids)).expanded_ids

\* The ids that following parent_id from c reaches in at most k steps, c
\* itself included.
RECURSIVE Upward(_, _)
Upward(c, k) ==
    IF k = 0 \/ c \notin DOMAIN cats \/ cats[c].parent_id = Null THEN {c}
    ELSE {c} \cup Upward(cats[c].parent_id, k - 1)

\* T holds every category whose parent it holds.
ClosedUnderChildren(T) == \A c \in DOMAIN cats : cats[c].parent_id \in T => c \in T

\* C23: the expansion of a filter is the least set that holds the ids of
\* the filter and every child of an id it holds: it holds them, and every
\* set that does holds the expansion.  The expansion of the empty filter is
\* empty; the expansion of a filter holds exactly the ids of the filter and
\* the categories from which following parent_id reaches an id of the
\* filter.
C23_ExpandIsLeastClosure ==
    /\ Expand(<<>>) = {}
    /\ \A category_ids \in Filters(ExpandClient) :
        LET roots == Range(category_ids)
            expanded_ids == Expand(category_ids)
        IN  /\ roots \subseteq expanded_ids
            /\ ClosedUnderChildren(expanded_ids)
            /\ \A T \in SUBSET IdsOf(cats) :
                    roots \subseteq T /\ ClosedUnderChildren(T) => expanded_ids \subseteq T
            /\ expanded_ids =
                    roots \cup {c \in DOMAIN cats : Upward(c, Len(cats)) \cap roots # {}}

\* A query has just been answered over a store in which "a" and "b" are
\* each the parent of the other and a third category is under "a".
C23_Witness ==
    /\ last = [op |-> "list_payment_items", status |-> "OK"]
    /\ cats[3].parent_id = 4 /\ cats[4].parent_id = 3
    /\ \E c \in DOMAIN cats \ {3, 4} : cats[c].parent_id = 3

\* C27: the expansion of the filter of a query ends, whatever the parent
\* relation, cycles included: every query is answered.
C27_ExpansionEnds ==
    \A u \in users, expense_only \in BOOLEAN, income_only \in BOOLEAN,
       category_ids \in Filters(ExpandClient) :
        list_payment_items(DB, u, expense_only, income_only, category_ids).status
            # "NoResponse"

\* A query has just been answered over a store in which a category is its
\* own parent and two categories of different owners are each the parent
\* of the other.
C27_Witness ==
    /\ last = [op |-> "list_payment_items", status |-> "OK"]
    /\ \E c \in DOMAIN cats : cats[c].parent_id = c
    /\ \E c, d \in DOMAIN cats :
        /\ cats[c].user_id # cats[d].user_id
        /\ cats[c].parent_id = d /\ cats[d].parent_id = c

(***************************************************************************)
(* A delete of a payment item, commit by commit, beside updates: an update *)
(* runs in a session of its own and commits once, at any point between the *)
(* commits of the request in flight.                                       *)
(***************************************************************************)
NextDeleteRace ==
    \/ NextCommits
    \/ UpdatePaymentItem(AssignClient)

SpecDeleteRace == InitAssign /\ [][NextDeleteRace]_vars

\* C29: no link of the store names a payment item that is not in the
\* store: when a delete has removed the item, its links are gone too, also
\* when an update of the item commits between the two commits of the
\* delete.
C29_NoLinkWithoutItem ==
    \A l \in links : HasItem(DB, l[1])

(***************************************************************************)
(* Concurrent requests.  The endpoints are plain functions, which the      *)
(* server runs in a thread pool, each request with a session of its own.   *)
(* A session reads when the handler queries and writes when it flushes at  *)
(* its commit; a request that has read and has not committed yet is in     *)
(* calls, with what it read.  Other requests run meanwhile.                *)
(***************************************************************************)
\* The id of the next request in calls.
NextCallId == CHOOSE id \in 1 .. MaxCalls + 1 : \A call \in calls : call.id # id

\* Updates of a payment item that carry a tag list.  A call keeps the row
\* it loaded (db_item), the row as the handler has set it (dirty_item) and
\* the links it selected (existing_links).
\* The flush at the commit of update_payment_item over the store db of that
\* moment: the DELETE of every link the request selected, the INSERT of the
\* links of its list, the UPDATE of the columns of the item that the handler
\* changed.  An INSERT of a link that is in the store fails on the primary
\* key.  A DELETE that matches no row, because another request has deleted
\* the link since, is either an error of the session (stale_fails) or only
\* a warning, depending on the version of the library.
update_payment_item_commit(db, call, stale_fails) ==
    LET item_id == call.item_id
        category_ids == AssignedCategories(call.req.category_ids, call.default_cat)
        added == {<<item_id, c>> : c \in Range(category_ids)}
        row == [f \in DOMAIN db.items[item_id] |->
                    IF call.dirty_item[f] # call.db_item[f]
                    THEN call.dirty_item[f] ELSE db.items[item_id][f]]
        written == [db EXCEPT !.items[item_id] = row,
                              !.links = (@ \ call.existing_links) \cup added]
    IN  IF ~(call.existing_links \subseteq db.links) /\ stale_fails
        THEN Fail(Rollback(db, written), "Error")
        ELSE IF (added \ call.existing_links) \cap db.links # {}
        THEN Fail(Rollback(db, written), "Error")
        ELSE Ok(written)

\* update_payment_item up to its commit.  A request that is refused, or
\* that carries no tag list, is answered at once.
BeginUpdatePaymentItem(c) ==
    \E u \in users, item_id \in ItemIds, req \in UpdateItemRequests(c) :
    \E standard_type_id \in First(StandardTypes(DB, u)),
       default_cat \in First(DefaultCats(DB, u)) :
        LET r == update_payment_item(DB, u, item_id, req, standard_type_id, default_cat)
        IN  IF r.status # "OK" \/ ~CarriesCategories(req)
            THEN Respond("update_payment_item", r, c)
            ELSE /\ Cardinality(calls) < MaxCalls
                 /\ calls' = calls \cup
                        {[id |-> NextCallId, u |-> u, item_id |-> item_id, req |-> req,
                          standard_type_id |-> standard_type_id,
                          default_cat |-> default_cat,
                          db_item |-> items[item_id],
                          dirty_item |-> r.db.items[item_id],
                          existing_links |-> LinksOf(DB, item_id)]}
                 /\ UNCHANGED <<users, types, cats, recipients, items, links, last,
                                inflight>>

FinishUpdatePaymentItem(c) ==
    \E call \in calls, stale_fails \in BOOLEAN :
        LET r == update_payment_item_commit(DB, call, stale_fails)
        IN  /\ Commit(r.db, c)
            /\ last' = [op |-> "update_payment_item", status |-> r.status]
            /\ calls' = calls \ {call}
            /\ inflight' = inflight

\* The store after the admin has renamed its category UNCLASSIFIED to "b".
RenamedDB ==
    update_category(ProvisionedDB, AdminId, 1,
        [set |-> {"name"}, name |-> <<"b">>, type_id |-> Null, parent_id |-> Null]).db

InitUpdateRace ==
    /\ \E db \in {ProvisionedDB, RenamedDB} :
        /\ users = db.users
        /\ types = db.types
        /\ cats = db.cats
        /\ recipients = db.recipients
        /\ items = db.items
        /\ links = db.links
    /\ last = [op |-> "startup", status |-> "OK"]
    /\ inflight = NoCall
    /\ calls = {}

\* The client creates one payment item and updates its tag list.
UpdateRaceClient ==
    [AssignClient EXCEPT !.item_keys = {{"category_ids"}}, !.max_items = MaxRaceItems]

NextUpdateRace ==
    \/ CreatePaymentItem(UpdateRaceClient)
    \/ BeginUpdatePaymentItem(UpdateRaceClient)
    \/ FinishUpdatePaymentItem(UpdateRaceClient)

SpecUpdateRace == InitUpdateRace /\ [][NextUpdateRace]_vars

\* C28: however two updates of one payment item that carry tag lists are
\* interleaved, the committed store holds at most one link of the item per
\* category type, and the item's standard_category_id matches its links.
C28_RacingUpdatesKeepOnePerType ==
    \A item_id \in DOMAIN items :
        /\ \A c1, c2 \in CategoriesOf(DB, item_id) :
                c1 # c2 => cats[c1].type_id # cats[c2].type_id
        /\ ShortcutMatches(DB, item_id)

(***************************************************************************)
(* Concurrent creates of one name.  create_category and create_recipient   *)
(* select the rows of the caller and compare the names, then add the row   *)
(* and commit; a request between the two is in calls with the row it is    *)
(* about to add.                                                           *)
(***************************************************************************)
\* Mutant: the commit compares the names once more.
create_category_rechecked(db, call) ==
    IF NameExists(db.cats, call.u, Null, call.row.name) THEN Fail(db, "Conflict")
    ELSE Ok([db EXCEPT !.cats = Append(@, call.row)])

\* create_category: session.add(category); session.commit()
create_category_commit(db, call) == Ok([db EXCEPT !.cats = Append(@, call.row)])

\* create_recipient: session.add(recipient); session.commit()
create_recipient_commit(db, call) == Ok([db EXCEPT !.recipients = Append(@, call.row)])

\* The request is answered at once if it is refused; if not, it has passed
\* the comparison of the names and the checks of parent and type.
BeginCreateCategory(c) ==
    \E u \in users, name \in c.names, type_id \in IdsOf(types) \cap c.type_ids,
       parent_id \in ({Null} \cup IdsOf(cats)) \cap c.parent_ids :
        LET r == create_category(DB, u, [name |-> name, type_id |-> type_id,
                                         parent_id |-> parent_id])
        IN  IF r.status # "OK" THEN Respond("create_category", r, c)
            ELSE /\ Cardinality(calls) < MaxCalls
                 /\ calls' = calls \cup
                        {[id |-> NextCallId, op |-> "create_category", u |-> u,
                          row |-> r.db.cats[Len(r.db.cats)]]}
                 /\ UNCHANGED <<users, types, cats, recipients, items, links, last,
                                inflight>>

FinishCreateCategory(c) ==
    \E call \in calls :
        /\ call.op = "create_category"
        /\ LET r == create_category_commit(DB, call)
           IN  /\ Commit(r.db, c)
               /\ last' = [op |-> "create_category", status |-> r.status]
        /\ calls' = calls \ {call}
        /\ inflight' = inflight

BeginCreateRecipient(c) ==
    \E u \in users, name \in c.names, address \in c.addresses :
        LET r == create_recipient(DB, u, [name |-> name, address |-> address])
        IN  IF r.status # "OK" THEN Respond("create_recipient", r, c)
            ELSE /\ Cardinality(calls) < MaxCalls
                 /\ calls' = calls \cup
                        {[id |-> NextCallId, op |-> "create_recipient", u |-> u,
                          row |-> r.db.recipients[Len(r.db.recipients)]]}
                 /\ UNCHANGED <<users, types, cats, recipients, items, links, last,
                                inflight>>

FinishCreateRecipient(c) ==
    \E call \in calls :
        /\ call.op = "create_recipient"
        /\ LET r == create_recipient_commit(DB, call)
           IN  /\ Commit(r.db, c)
               /\ last' = [op |-> "create_recipient", status |-> r.status]
        /\ calls' = calls \ {call}
        /\ inflight' = inflight

\* The client spells one name in two ways, for categories, for recipients
\* and in the cells of its files.
DedupClient ==
    PlainFiles @@
    [names |-> {<<"b">>, <<" ", "b">>},
     addresses |-> {<<>>},
     type_ids |-> {1}, parent_ids |-> {Null},
     max_rows |-> MaxRows,
     observe |-> TRUE,
     max_users |-> Cardinality(InitialDB.users),
     max_types |-> Len(InitialDB.types),
     max_cats |-> Len(InitialDB.cats) + MaxCalls,
     max_recipients |-> MaxCalls, max_items |-> MaxRaceItems]

\* An import runs, from its lookups to its commit, at any point between
\* the comparison of the names and the commit of a create.
NextDedup ==
    \/ BeginCreateCategory(DedupClient)
    \/ FinishCreateCategory(DedupClient)
    \/ BeginCreateRecipient(DedupClient)
    \/ FinishCreateRecipient(DedupClient)
    \/ ImportCsv(DedupClient)

SpecDedup == Init /\ [][NextDedup]_vars

\* The commit of a request of calls.
CommitCall(db, call) ==
    IF call.op = "create_category" THEN create_category_commit(db, call)
    ELSE create_recipient_commit(db, call)

\* The rows of u with the normalized name in the table that the request
\* adds to.
Namesakes(db, call) ==
    RecipientsNamed(IF call.op = "create_category" THEN db.cats ELSE db.recipients,
                    call.u, call.row.name)

\* C21: two create requests of one user for one normalized name that have
\* both compared the names before either commits are both answered with
\* success, and the store then holds two rows of that user with the name;
\* and so are a create request that has compared the names and an import of
\* the same user, run before the create commits, of a file that spells the
\* name while no row of the user has it.
C21_BothCreatesSucceed ==
    /\ \A c1 \in calls, c2 \in calls :
            (c1.id # c2.id /\ c1.op = c2.op /\ c1.u = c2.u /\ c1.row.name = c2.row.name) =>
                LET r1 == CommitCall(DB, c1)
                    r2 == CommitCall(r1.db, c2)
                IN  /\ r1.status = "OK" /\ r2.status = "OK"
                    /\ Cardinality(Namesakes(r2.db, c1)) >= 2
    /\ \A call \in calls, lines \in ImportFiles(DedupClient) :
       \A standard_type_id \in First(StandardTypes(DB, call.u)),
          default_category \in First(DefaultCats(DB, call.u)),
          category_order \in Orders(CategoryNames(ParsedRows(lines))) :
            LET r1 == import_csv(DB, call.u, lines, category_order, standard_type_id,
                                 default_category)
                r2 == CommitCall(r1.db, call)
                column == IF call.op = "create_category" THEN 6 ELSE 4
            IN  (/\ r1.status = "OK"
                 /\ call.row.name \in NamesInColumn(lines, column)
                 /\ Namesakes(DB, call) = {}) =>
                    /\ r2.status = "OK"
                    /\ Cardinality(Namesakes(r2.db, call)) >= 2

\* No request is waiting for its commit, the last create of a category was
\* answered with success, and a user has two categories of one normalized
\* name and two recipients of one normalized name.
C21_Witness ==
    /\ calls = {}
    /\ last = [op |-> "create_category", status |-> "OK"]
    /\ \E u \in users :
        /\ \E c1, c2 \in DOMAIN cats :
            /\ c1 # c2 /\ cats[c1].user_id = u /\ cats[c2].user_id = u
            /\ _normalize_name(cats[c1].name) = _normalize_name(cats[c2].name)
        /\ \E r1, r2 \in DOMAIN recipients :
            /\ r1 # r2 /\ recipients[r1].user_id = u /\ recipients[r2].user_id = u
            /\ _normalize_name(recipients[r1].name) = _normalize_name(recipients[r2].name)

====
